---------------------------- MODULE Spec2Model ----------------------------
(***************************************************************************)
(* Model of the interactive estimation backend (src/backend/app):          *)
(*   estimator.py  - get_missing_info, calculate_estimate                  *)
(*   models.py     - GraphState, EstimateResult                            *)
(*   utils.py      - generate_next_question, format_estimate_for_display   *)
(*   graph.py      - the conversation graph and its two entry points        *)
(*   main.py       - the session store and the HTTP handlers                *)
(*                                                                         *)
(* Conventions.                                                            *)
(*  - Money is counted in cents and multipliers in hundredths; on the      *)
(*    inputs used every product is a whole number of cents, so the model   *)
(*    computes the decimal value of each amount.  The rounding of binary   *)
(*    floating point (12250 * 1.1 = 13475.000000000002) is not modelled.   *)
(*  - A Python value is a record [t, s, n]: t is "none", "str" or "num".   *)
(*  - A dict is a function whose DOMAIN is the set of keys present.        *)
(*  - An Optional value is a sequence of length 0 (None) or 1.             *)
(*  - The graph library is outside the repository; nodes are run in the    *)
(*    order create_graph wires them, on the one state object they mutate.  *)
(***************************************************************************)
EXTENDS Integers, Sequences, FiniteSets, TLC

\* ------------------------------------------------------------------------
\* Bounds of the model
\* ------------------------------------------------------------------------
MaxTurns == 2

\* ------------------------------------------------------------------------
\* Python values
\* ------------------------------------------------------------------------
None == [t |-> "none", s |-> "", n |-> 0]

Str(x) == [t |-> "str", s |-> x, n |-> 0]

Num(k) == [t |-> "num", s |-> "", n |-> k]

\* bool(v): None, "", 0 and 0.0 are falsy
Truthy(v) ==
    CASE v.t = "none" -> FALSE
      [] v.t = "str"  -> v.s # ""
      [] v.t = "num"  -> v.n # 0

\* dict.get(key, default)
Get(d, key, default) == IF key \in DOMAIN d THEN d[key] ELSE default

\* d[key] = value
Put(d, key, value) ==
    [k \in DOMAIN d \cup {key} |-> IF k = key THEN value ELSE d[k]]

EmptyDict == [k \in {} |-> None]

\* ------------------------------------------------------------------------
\* config.py : DEFAULT_CONFIG["services"]["roofing"]
\* ------------------------------------------------------------------------
Fields == {"service_type", "square_footage", "location", "material_type", "timeline"}

RequiredInfo == <<"service_type", "square_footage", "location", "material_type", "timeline">>

BaseRatePerSqft == 500

Materials == [asphalt |-> 100, metal |-> 150, tile |-> 180, slate |-> 220]

Regions == [northeast |-> 120, midwest |-> 100, south |-> 90, west |-> 130]

TimelineMultipliers == [standard |-> 100, expedited |-> 125, emergency |-> 150]

PermitFee == 25000

PriceRangePercentage == 10

\* The service_config a GraphState carries: "" is the empty dict of a fresh
\* GraphState, "roofing" the profile start_node attaches.  Every read of the
\* config in calculate_estimate is a .get with a default.
ConfigRequiredInfo(cfg)   == IF cfg = "roofing" THEN RequiredInfo ELSE << >>

ConfigBaseRate(cfg)       == IF cfg = "roofing" THEN BaseRatePerSqft ELSE 0

ConfigMaterials(cfg)      == IF cfg = "roofing" THEN Materials ELSE EmptyDict

ConfigRegions(cfg)        == IF cfg = "roofing" THEN Regions ELSE EmptyDict

ConfigTimelines(cfg)      == IF cfg = "roofing" THEN TimelineMultipliers ELSE EmptyDict

ConfigPermitFee(cfg)      == IF cfg = "roofing" THEN PermitFee ELSE 0

\* variant: the profile's price range percentage is not applied
ConfigPriceRange_Ignored(cfg) == 0

ConfigPriceRange(cfg)     == PriceRangePercentage

\* ------------------------------------------------------------------------
\* estimator.py : get_missing_info
\* ------------------------------------------------------------------------
\* variant: only the "field not in extracted_info" half of the test
IsMissing_AbsentOnly(field, extracted_info) ==
    field \notin DOMAIN extracted_info

\* "field not in extracted_info or not extracted_info[field]"
IsMissing(field, extracted_info) ==
    field \notin DOMAIN extracted_info \/ ~Truthy(extracted_info[field])

RECURSIVE get_missing_info(_, _)
get_missing_info(required_info, extracted_info) ==
    IF required_info = << >> THEN << >>
    ELSE LET rest == get_missing_info(Tail(required_info), extracted_info)
         IN  IF IsMissing(Head(required_info), extracted_info)
             THEN <<Head(required_info)>> \o rest
             ELSE rest

\* ------------------------------------------------------------------------
\* estimator.py : calculate_estimate
\* ------------------------------------------------------------------------
\* float(x): defined on numbers; None and a non-numeric str raise
FloatRaises(v) == v.t # "num"

\* x.lower(): defined on str only
LowerRaises(v) == v.t # "str"

\* str.lower(): folds letter case and leaves surrounding blanks in place
Lower(x) ==
    CASE x = "Northeast" -> "northeast"
      [] x = "METAL"     -> "metal"
      [] x = "Standard"  -> "standard"
      [] x = " south "   -> " south "
      [] OTHER           -> x

\* the "for field in required_info" pre-check
HasAllRequired(cfg, extracted_info) ==
    \A i \in 1..Len(ConfigRequiredInfo(cfg)) :
        ~IsMissing(ConfigRequiredInfo(cfg)[i], extracted_info)

\* variant: a key that is not in the table gets the multiplier 0
Multiplier_ZeroDefault(table, key) == IF key \in DOMAIN table THEN table[key] ELSE 0

\* table.get(key, 1.0)
Multiplier(table, key) == IF key \in DOMAIN table THEN table[key] ELSE 100

\* variant: material_cost reported as the full material-adjusted cost
PricingResult_FullMaterial(service_type, cfg, extracted_info, image_references) ==
    LET square_footage == Get(extracted_info, "square_footage", Num(0)).n
        location       == Lower(Get(extracted_info, "location", Str("")).s)
        material_type  == Lower(Get(extracted_info, "material_type", Str("")).s)
        timeline       == Lower(Get(extracted_info, "timeline", Str("")).s)
        material_multiplier == Multiplier(ConfigMaterials(cfg), material_type)
        region_multiplier   == Multiplier(ConfigRegions(cfg), location)
        timeline_multiplier == Multiplier(ConfigTimelines(cfg), timeline)
        base_cost     == ConfigBaseRate(cfg) * square_footage
        material_cost == (base_cost * material_multiplier) \div 100
        region_adjustment ==
            (material_cost * region_multiplier) \div 100 - material_cost
        timeline_adjustment ==
            ((material_cost + region_adjustment) * timeline_multiplier) \div 100
              - (material_cost + region_adjustment)
        total_estimate == material_cost + region_adjustment
                            + timeline_adjustment + ConfigPermitFee(cfg)
    IN  [ service_type        |-> service_type,
          square_footage      |-> square_footage,
          location            |-> location,
          material_type       |-> material_type,
          timeline            |-> timeline,
          base_cost           |-> base_cost,
          material_cost       |-> material_cost,
          region_adjustment   |-> region_adjustment,
          timeline_adjustment |-> timeline_adjustment,
          permit_fee          |-> ConfigPermitFee(cfg),
          total_estimate      |-> total_estimate,
          price_range_low     |->
              (total_estimate * (100 - ConfigPriceRange(cfg))) \div 100,
          price_range_high    |->
              (total_estimate * (100 + ConfigPriceRange(cfg))) \div 100,
          image_references    |-> image_references ]

PricingResult(service_type, cfg, extracted_info, image_references) ==
    LET square_footage == Get(extracted_info, "square_footage", Num(0)).n
        location       == Lower(Get(extracted_info, "location", Str("")).s)
        material_type  == Lower(Get(extracted_info, "material_type", Str("")).s)
        timeline       == Lower(Get(extracted_info, "timeline", Str("")).s)
        material_multiplier == Multiplier(ConfigMaterials(cfg), material_type)
        region_multiplier   == Multiplier(ConfigRegions(cfg), location)
        timeline_multiplier == Multiplier(ConfigTimelines(cfg), timeline)
        base_cost     == ConfigBaseRate(cfg) * square_footage
        material_cost == (base_cost * material_multiplier) \div 100
        region_adjustment ==
            (material_cost * region_multiplier) \div 100 - material_cost
        timeline_adjustment ==
            ((material_cost + region_adjustment) * timeline_multiplier) \div 100
              - (material_cost + region_adjustment)
        subtotal == base_cost + (material_cost - base_cost)
                      + region_adjustment + timeline_adjustment
        total_estimate == subtotal + ConfigPermitFee(cfg)
    IN  [ service_type        |-> service_type,
          square_footage      |-> square_footage,
          location            |-> location,
          material_type       |-> material_type,
          timeline            |-> timeline,
          base_cost           |-> base_cost,
          material_cost       |-> material_cost - base_cost,
          region_adjustment   |-> region_adjustment,
          timeline_adjustment |-> timeline_adjustment,
          permit_fee          |-> ConfigPermitFee(cfg),
          total_estimate      |-> total_estimate,
          price_range_low     |->
              (total_estimate * (100 - ConfigPriceRange(cfg))) \div 100,
          price_range_high    |->
              (total_estimate * (100 + ConfigPriceRange(cfg))) \div 100,
          image_references    |-> image_references ]

\* outcome "incomplete" is the (None, False) return, "ok" is (result, True),
\* "raise" is an exception leaving the function
calculate_estimate(service_type, cfg, extracted_info, image_references) ==
    IF ~HasAllRequired(cfg, extracted_info)
    THEN [outcome |-> "incomplete", result |-> << >>]
    ELSE IF \/ FloatRaises(Get(extracted_info, "square_footage", Num(0)))
            \/ LowerRaises(Get(extracted_info, "location", Str("")))
            \/ LowerRaises(Get(extracted_info, "material_type", Str("")))
            \/ LowerRaises(Get(extracted_info, "timeline", Str("")))
    THEN [outcome |-> "raise", result |-> << >>]
    ELSE [outcome |-> "ok",
          result  |-> <<PricingResult(service_type, cfg, extracted_info,
                                      image_references)>>]


\* ------------------------------------------------------------------------
\* models.py : EstimateResult.dict
\* ------------------------------------------------------------------------
MoneyKeys == {"base_cost", "material_cost", "region_adjustment",
              "timeline_adjustment", "permit_fee", "total_estimate",
              "price_range_low", "price_range_high"}

\* "if key in result and result[key] < 1000", in cents
DemoThreshold == 100000

\* values random.uniform(10, 20) is sampled at
RandomFactors == {10, 20}

\* the keys whose stored value depends on the random draw
ScaledKeys(result) == {k \in MoneyKeys : result[k] < DemoThreshold /\ result[k] # 0}

\* result.dict(): every money key below the threshold is multiplied by a
\* fresh random factor; rnd gives the factor drawn for each such key
EstimateResultDict(result, rnd) ==
    [k \in DOMAIN result |->
        IF k \in MoneyKeys /\ result[k] < DemoThreshold /\ k \in DOMAIN rnd
        THEN result[k] * rnd[k]
        ELSE result[k]]

\* ------------------------------------------------------------------------
\* Texts.  The canned assistant messages are the literals of utils.py and
\* graph.py; the user texts are the inputs the model feeds to the handlers.
\* ------------------------------------------------------------------------
WelcomeMessage ==
    "Welcome to the Interactive Estimation System! I'm here to help you get an estimate for your project. I'll ask you a series of questions, and you can also upload images if needed. Let's get started!"

QuestionServiceType ==
    "What type of service are you looking for? (e.g., roofing)"

QuestionSquareFootage ==
    "What is the approximate square footage of the area?"

QuestionLocation ==
    "In which region are you located? (Northeast, Midwest, South, or West)"

QuestionMaterialType ==
    "What type of material would you prefer? For roofing, options include asphalt, metal, tile, or slate."

QuestionTimeline ==
    "What is your preferred timeline? (standard, expedited, or emergency)"

ReadyMessage ==
    "I have all the information I need. Let me prepare your estimate."

GreetingResponse ==
    "Hello! Is there anything specific you'd like to know about your estimate?"

GratitudeResponse ==
    "You're welcome! If you have any other questions about your estimate or our services, feel free to ask."

TimelineResponse ==
    "Based on your selected timeline, we can typically schedule the work within our standard processing times. Would you like me to provide more details on scheduling?"

MaterialResponse ==
    "We use high-quality materials from trusted suppliers. The estimate is based on the material type you've selected. Would you like more information about the specific brands we work with?"

WarrantyResponse ==
    "We offer a standard warranty on all our work. The exact terms depend on the service and materials selected. Would you like me to explain our warranty policy in more detail?"

ClarifyResponse ==
    "Thank you for your question. Is there anything specific about the estimate you'd like me to clarify or explain further?"

ClosingMessage ==
    "Thank you for using our estimation service! Is there anything else you'd like to know about this estimate?"

EstimateErrorMessage ==
    "I'm sorry, I couldn't generate an estimate with the provided information. Please check your inputs."

ImageReceivedMessage ==
    "I've received your image. This will help with the estimation process."

\* _mock_image_analysis(image_ref): image references are "image_<n>", so the
\* final else branch of the mock is the one taken
MockAnalysis ==
    "The image shows a residential property with what appears to be a typical gabled roof. The roofing material looks like standard asphalt shingles in a dark gray or black color. The total roof area is approximately 1,500-2,000 square feet based on the overall house dimensions. The roof appears to be in moderate condition with no immediately obvious major damage or issues, though a closer inspection would be recommended for a complete assessment."

\* f"I've analyzed your image and found the following: {analysis}"
AnalysisSummary == "I've analyzed your image and found the following: <MockAnalysis>"

\* the content of a history entry that holds format_estimate_for_display(e);
\* the estimate e itself is kept in the entry's args.  The template ends with
\* "... and may change based on final inspection."
EstimateSummary == "<format_estimate_for_display>"

ScenarioText ==
    "2000 sq ft house in the northeast with asphalt shingles, standard timeline"

RecalculateText == "recalculate with metal roofing"

\* messages a client sends to /api/chat
ChatTexts ==
    {"", "Thanks!", RecalculateText, "something different", ScenarioText,
     "1000", "south", "0", "metal", "see my photo"}

\* file descriptions a client sends to /api/upload
Descriptions == {"roof", "different roof"}

\* image_data of an upload: absent, or a base64 payload
ImageData == {"", "<base64>"}

\* f"I've uploaded an image: {file_description}"
UploadText(file_description) ==
    CASE file_description = "roof"           -> "I've uploaded an image: roof"
      [] file_description = "different roof" -> "I've uploaded an image: different roof"

\* follow-up messages handed to generate_next_question as last_user_message
FollowUpTexts ==
    {"", "ok", "Hello", "hi there", "Thanks!",
     "Thank you! Do you offer any warranty?",
     "What kind of materials do you use?", "How long will it take?",
     "Do you offer any warranty?", "When is the material guaranteed?"}

\* ---- keyword containment, evaluated on the texts above -------------------
\* not text.strip()
BlankTexts == {"", "   "}

\* len(text.strip().split()) <= 3
ShortTexts ==
    {"", "   ", "Thanks!", "something different", "1000", "south", "0", "metal",
     "see my photo", "PICTURE attached"}

\* variant: the keywords are looked for in the text as typed
ImageKeywordTexts_CaseSensitive ==
    {"see my photo", "I've uploaded an image: roof",
     "I've uploaded an image: different roof"}

\* any of "image", "photo", "picture", "uploaded", "upload" in text.lower()
ImageKeywordTexts ==
    {"see my photo", "PICTURE attached", "I've uploaded an image: roof",
     "I've uploaded an image: different roof"}

\* variant: "recalculate" is not among the estimate keywords
EstimateKeywordTexts_NoRecalculate == {EstimateSummary}

\* any of "new estimate", "recalculate", "update estimate",
\* "different materials", "change" in text.lower()
EstimateKeywordTexts == {RecalculateText, EstimateSummary}

\* "new estimate" or "different" in file_description.lower()
ResetDescriptions == {"different roof"}

\* text.lower() in ["hi", "hello", "hey"]
GreetingTexts == {"Hello"}

\* "thank" in text.lower()
ThankTexts == {"Thanks!", "Thank you! Do you offer any warranty?"}

\* any of "how long", "timeline", "when", "schedule"
TimelineInquiryTexts ==
    {ScenarioText, "How long will it take?", "When is the material guaranteed?"}

\* any of "material", "quality", "brand"
MaterialInquiryTexts ==
    {"What kind of materials do you use?", "When is the material guaranteed?"}

\* any of "warranty", "guarantee"
WarrantyInquiryTexts ==
    {"Thank you! Do you offer any warranty?", "Do you offer any warranty?",
     "When is the material guaranteed?"}

\* re.search(r'\b\d+\b', text)
DigitTexts == {ScenarioText, "1000", "0"}

\* ------------------------------------------------------------------------
\* utils.py : generate_next_question
\* ------------------------------------------------------------------------
\* next_field.replace('_', ' ') on the field names of the model
ReplaceUnderscores(field) ==
    CASE field = "roof_pitch" -> "roof pitch"
      [] field = "service_type" -> "service type"
      [] field = "square_footage" -> "square footage"
      [] field = "material_type" -> "material type"
      [] OTHER -> field

Questions(field) ==
    CASE field = "service_type"   -> QuestionServiceType
      [] field = "square_footage" -> QuestionSquareFootage
      [] field = "location"       -> QuestionLocation
      [] field = "material_type"  -> QuestionMaterialType
      [] field = "timeline"       -> QuestionTimeline
      [] OTHER                    ->
            "Please provide information about " \o ReplaceUnderscores(field) \o "."

\* variant: asks for the last missing field
generate_next_question_LastMissing(missing_info, extracted_info, has_estimate, last_user_message) ==
    IF missing_info = << >>
    THEN IF has_estimate
         THEN IF last_user_message \in GreetingTexts THEN GreetingResponse
              ELSE IF last_user_message \in ThankTexts THEN GratitudeResponse
              ELSE IF last_user_message \in TimelineInquiryTexts THEN TimelineResponse
              ELSE IF last_user_message \in MaterialInquiryTexts THEN MaterialResponse
              ELSE IF last_user_message \in WarrantyInquiryTexts THEN WarrantyResponse
              ELSE ClarifyResponse
         ELSE ReadyMessage
    ELSE Questions(missing_info[Len(missing_info)])

\* variant: the warranty keywords are tested before the "thank" keyword
generate_next_question_WarrantyFirst(missing_info, extracted_info, has_estimate, last_user_message) ==
    IF missing_info = << >>
    THEN IF has_estimate
         THEN IF last_user_message \in GreetingTexts THEN GreetingResponse
              ELSE IF last_user_message \in WarrantyInquiryTexts THEN WarrantyResponse
              ELSE IF last_user_message \in ThankTexts THEN GratitudeResponse
              ELSE IF last_user_message \in TimelineInquiryTexts THEN TimelineResponse
              ELSE IF last_user_message \in MaterialInquiryTexts THEN MaterialResponse
              ELSE ClarifyResponse
         ELSE ReadyMessage
    ELSE Questions(missing_info[1])

\* variant: the fixed "ready" message is returned whenever nothing is missing
generate_next_question_AlwaysReady(missing_info, extracted_info, has_estimate, last_user_message) ==
    IF missing_info = << >>
    THEN ReadyMessage
    ELSE Questions(missing_info[1])

\* utils.py : generate_next_question
generate_next_question(missing_info, extracted_info, has_estimate, last_user_message) ==
    IF missing_info = << >>
    THEN IF has_estimate
         THEN IF last_user_message \in GreetingTexts THEN GreetingResponse
              ELSE IF last_user_message \in ThankTexts THEN GratitudeResponse
              ELSE IF last_user_message \in TimelineInquiryTexts THEN TimelineResponse
              ELSE IF last_user_message \in MaterialInquiryTexts THEN MaterialResponse
              ELSE IF last_user_message \in WarrantyInquiryTexts THEN WarrantyResponse
              ELSE ClarifyResponse
         ELSE ReadyMessage
    ELSE Questions(missing_info[1])


\* ------------------------------------------------------------------------
\* models.py : GraphState
\* ------------------------------------------------------------------------
SessionId == "s1"

\* GraphState(session_id=..., user_input=...): every other field at its default
NewGraphState(session_id, user_input) ==
    [ session_id           |-> session_id,
      conversation_history |-> << >>,
      user_input           |-> user_input,
      extracted_info       |-> EmptyDict,
      required_info        |-> << >>,
      current_question     |-> "",
      image_references     |-> << >>,
      image_analysis       |-> EmptyDict,
      final_estimate       |-> << >>,
      service_config       |-> "",
      next                 |-> "" ]

\* a history entry {"role", "content"}; args carries the estimate a
\* formatted summary was rendered from (empty for every other content)
Message(role, content) == [role |-> role, content |-> content, args |-> << >>]

add_to_history(state, role, content) ==
    [state EXCEPT !.conversation_history = Append(@, Message(role, content))]

\* utils.py : format_estimate_for_display, appended as an assistant message
add_estimate_to_history(state, estimate) ==
    [state EXCEPT !.conversation_history =
        Append(@, [role |-> "assistant", content |-> EstimateSummary,
                   args |-> <<estimate>>])]

\* ------------------------------------------------------------------------
\* graph.py : extract_info_from_text (tier 2), through its regular
\* expressions evaluated on each message of the text it is given
\* ------------------------------------------------------------------------
\* r'\b(roof|roofing|shingles?)\b'
RoofTexts ==
    {RecalculateText, ScenarioText, "I've uploaded an image: roof",
     "I've uploaded an image: different roof", QuestionServiceType,
     QuestionMaterialType, AnalysisSummary}

\* r'\b(siding|exterior|cladding)\b'
SidingTexts == {}

\* 'feet', 'foot', 'footage', 'area' or 'size' in text
SizeKeywordTexts == {QuestionSquareFootage, AnalysisSummary}

RegionOrder == <<"northeast", "midwest", "south", "west">>

RegionTexts(region) ==
    CASE region = "northeast" ->
            {ScenarioText, QuestionLocation, ReadyMessage, TimelineResponse,
             WarrantyResponse, ClarifyResponse}
      [] region = "midwest" ->
            {ScenarioText, QuestionLocation, WarrantyResponse, AnalysisSummary}
      [] region = "south" -> {"south", QuestionLocation}
      [] region = "west" ->
            {QuestionLocation, QuestionMaterialType, QuestionTimeline,
             GratitudeResponse, ClarifyResponse, AnalysisSummary}

MaterialOrder == <<"asphalt", "metal", "tile", "slate">>

MaterialTexts(material) ==
    CASE material = "asphalt" -> {ScenarioText, QuestionMaterialType, AnalysisSummary}
      [] material = "metal"   -> {RecalculateText, "metal", QuestionMaterialType}
      [] material = "tile"    -> {QuestionMaterialType}
      [] material = "slate"   -> {QuestionMaterialType}

TimelineOrder == <<"standard", "expedited", "emergency">>

TimelineTexts(timeline) ==
    CASE timeline = "standard" ->
            {ScenarioText, QuestionTimeline, TimelineResponse, WarrantyResponse,
             AnalysisSummary}
      [] timeline = "expedited" -> {QuestionTimeline}
      [] timeline = "emergency" -> {QuestionTimeline, AnalysisSummary}

\* first match of the "<number> sq ft / square feet" pattern in a message;
\* in a formatted estimate "<area>.0 sq ft" the match is the "0" after the
\* decimal point
SqftMatch(m) ==
    CASE m.content = EstimateSummary -> Num(0)
      [] m.content = ScenarioText    -> Num(2000)
      [] m.content = AnalysisSummary -> Num(2000)
      [] OTHER                       -> None

\* the 3-5 digit numbers of a message that lie in 500..10000, in order
\* (only read when no message of the text has a SqftMatch)
SizeNumbers(m) ==
    CASE m.content = ScenarioText    -> <<2000>>
      [] m.content = "1000"          -> <<1000>>
      [] m.content = AnalysisSummary -> <<500>>
      [] OTHER                       -> << >>

\* does the word list of a field match the message
Mentions(m, texts, own) ==
    IF m.content = EstimateSummary THEN own ELSE m.content \in texts

MentionsRoof(m) ==
    Mentions(m, RoofTexts, m.args # << >> /\ m.args[1].service_type = "roofing")

MentionsSiding(m) ==
    Mentions(m, SidingTexts, m.args # << >> /\ m.args[1].service_type = "siding")

MentionsSize(m) == Mentions(m, SizeKeywordTexts, TRUE)

MentionsRegion(m, region) ==
    Mentions(m, RegionTexts(region), m.args # << >> /\ m.args[1].location = region)

MentionsMaterial(m, material) ==
    Mentions(m, MaterialTexts(material),
             m.args # << >> /\ m.args[1].material_type = material)

MentionsTimeline(m, timeline) ==
    Mentions(m, TimelineTexts(timeline),
             m.args # << >> /\ m.args[1].timeline = timeline)

\* the first key of an ordered pattern table with a match anywhere in the text
FirstKey(order, msgs, Hit(_, _)) ==
    LET I == {i \in 1..Len(order) : \E j \in 1..Len(msgs) : Hit(msgs[j], order[i])}
    IN  IF I = {} THEN None
        ELSE Str(order[CHOOSE i \in I : \A k \in I : i <= k])

RECURSIVE AllSizeNumbers(_)
AllSizeNumbers(msgs) ==
    IF msgs = << >> THEN << >>
    ELSE SizeNumbers(Head(msgs)) \o AllSizeNumbers(Tail(msgs))

ExtractSquareFootage(msgs) ==
    LET I == {i \in 1..Len(msgs) : SqftMatch(msgs[i]) # None}
    IN  IF I # {}
        THEN SqftMatch(msgs[CHOOSE i \in I : \A k \in I : i <= k])
        ELSE IF (\E j \in 1..Len(msgs) : MentionsSize(msgs[j]))
                /\ AllSizeNumbers(msgs) # << >>
        THEN Num(AllSizeNumbers(msgs)[1])
        ELSE None

\* msgs is the text handed to extract_info_from_text, message by message
extract_info_from_text(msgs) ==
    [ service_type   |->
          IF \E j \in 1..Len(msgs) : MentionsRoof(msgs[j]) THEN Str("roofing")
          ELSE IF \E j \in 1..Len(msgs) : MentionsSiding(msgs[j]) THEN Str("siding")
          ELSE None,
      square_footage |-> ExtractSquareFootage(msgs),
      location       |-> FirstKey(RegionOrder, msgs, MentionsRegion),
      material_type  |-> FirstKey(MaterialOrder, msgs, MentionsMaterial),
      timeline       |-> FirstKey(TimelineOrder, msgs, MentionsTimeline) ]

\* history[-6:] if len(history) > 6 else history
ContextWindow == 6

RecentHistory(history) ==
    IF Len(history) > ContextWindow
    THEN SubSeq(history, Len(history) - ContextWindow + 1, Len(history))
    ELSE history

\* full_text = context + "Current User Input: " + current_input
format_extraction_response(history, current_input) ==
    extract_info_from_text(
        Append(RecentHistory(history), Message("user", current_input)))


\* ------------------------------------------------------------------------
\* graph.py : information_extractor (tier 1: direct answer to a question)
\* ------------------------------------------------------------------------
\* "square footage", "area" or "how large" in the question
AreaQuestionTexts == {QuestionSquareFootage, AnalysisSummary, EstimateSummary}

\* "location", "region" or "where"
LocationQuestionTexts == {QuestionLocation}

\* "material" or "type of"
MaterialQuestionTexts ==
    {QuestionServiceType, QuestionMaterialType, MaterialResponse,
     WarrantyResponse, AnalysisSummary, EstimateSummary}

\* "timeline", "how soon" or "when"
TimelineQuestionTexts == {QuestionTimeline, TimelineResponse, EstimateSummary}

FieldToUpdate(last_question) ==
    IF last_question \in AreaQuestionTexts THEN "square_footage"
    ELSE IF last_question \in LocationQuestionTexts THEN "location"
    ELSE IF last_question \in MaterialQuestionTexts THEN "material_type"
    ELSE IF last_question \in TimelineQuestionTexts THEN "timeline"
    ELSE ""

\* the direct parse of a short reply, per targeted field
DirectValue(field, simple_input) ==
    CASE field = "square_footage" ->
            (CASE simple_input = "1000" -> Num(1000)
               [] simple_input = "0"    -> Num(0)
               [] OTHER                 -> None)
      [] field = "location" ->
            (CASE simple_input = "south" -> Str("south")
               [] simple_input \in {"Thanks!", "something different", "see my photo"}
                                        -> Str("south")
               [] OTHER                 -> None)
      [] field = "material_type" ->
            (CASE simple_input = "metal" -> Str("metal")
               [] OTHER                 -> None)
      [] OTHER -> None

\* content of the most recent assistant message, "" when there is none
LastAssistantContent(history) ==
    LET I == {i \in 1..Len(history) : history[i].role = "assistant"}
    IN  IF I = {} THEN ""
        ELSE history[CHOOSE i \in I : \A k \in I : i >= k].content

\* content of the most recent user message, "" when there is none
LastUserContent(history) ==
    LET I == {i \in 1..Len(history) : history[i].role = "user"}
    IN  IF I = {} THEN ""
        ELSE history[CHOOSE i \in I : \A k \in I : i >= k].content

ExtractedFieldOrder ==
    <<"service_type", "square_footage", "location", "material_type", "timeline">>

\* "for field, value in extracted_data.items(): if value: info[field] = value"
RECURSIVE CommitExtracted(_, _, _)
CommitExtracted(info, extracted_data, order) ==
    IF order = << >> THEN info
    ELSE LET field == Head(order)
             next_info == IF Truthy(extracted_data[field])
                          THEN Put(info, field, extracted_data[field])
                          ELSE info
         IN  CommitExtracted(next_info, extracted_data, Tail(order))

\* tier 1 writes its value first, tier 2 then writes every truthy value it found
MergeTiers(info, field_to_update, direct, extracted_data) ==
    CommitExtracted(
        IF field_to_update # "" /\ direct # None
        THEN Put(info, field_to_update, direct) ELSE info,
        extracted_data, ExtractedFieldOrder)

\* the field the last assistant message asked for, "" when it asked for none
TargetedField(state) ==
    FieldToUpdate(LastAssistantContent(state.conversation_history))

\* the value tier 1 found for that field, None when it found none
TargetedValue(state) ==
    IF TargetedField(state) # "" /\ state.user_input \in ShortTexts
    THEN DirectValue(TargetedField(state), state.user_input)
    ELSE None

\* variant: both tiers run on a blank input too
information_extractor_NoSkip(state) ==
    LET field_to_update == TargetedField(state)
        direct == TargetedValue(state)
        extracted_data ==
            format_extraction_response(state.conversation_history,
                                       state.user_input)
    IN  [state EXCEPT !.extracted_info =
            MergeTiers(@, field_to_update, direct, extracted_data)]

information_extractor(state) ==
    IF state.user_input \in BlankTexts THEN state
    ELSE LET field_to_update == TargetedField(state)
             direct == TargetedValue(state)
             extracted_data ==
                 format_extraction_response(state.conversation_history,
                                            state.user_input)
         IN  [state EXCEPT !.extracted_info =
                 MergeTiers(@, field_to_update, direct, extracted_data)]

\* ------------------------------------------------------------------------
\* graph.py : start_node, input_processor, image_handler_node
\* ------------------------------------------------------------------------
start_node(state) ==
    LET s1 == [state EXCEPT !.service_config = "roofing",
                            !.required_info  = ConfigRequiredInfo("roofing")]
        s2 == add_to_history(s1, "assistant", WelcomeMessage)
        next_question ==
            generate_next_question(s2.required_info, s2.extracted_info, FALSE, "")
    IN  add_to_history([s2 EXCEPT !.current_question = next_question],
                       "assistant", next_question)

\* service_config is the profile itself and has no "services" key, so the
\* required_info repair at the top of input_processor never changes anything
input_processor(state) ==
    IF state.user_input \in ImageKeywordTexts
    THEN [state EXCEPT !.next = "image_handler"]
    ELSE [state EXCEPT !.next = "information_extractor"]

\* llm_service.extract_info_from_image_analysis on the mock analysis
ImageFacts ==
    [service_type |-> Str("roofing"), square_footage |-> Num(1500),
     material_type |-> Str("asphalt")]

ImageFactOrder == <<"service_type", "square_footage", "material_type">>

\* variant: every image-derived value that is not None replaces the stored one
RECURSIVE MergeImageFacts_Overwrites(_, _, _)
MergeImageFacts_Overwrites(info, image_facts, order) ==
    IF order = << >> THEN info
    ELSE LET key == Head(order)
             next_info ==
                 IF image_facts[key] # None
                 THEN Put(info, key, image_facts[key])
                 ELSE info
         IN  MergeImageFacts_Overwrites(next_info, image_facts, Tail(order))

\* "if value is not None and (key not in info or info[key] is None)"
RECURSIVE MergeImageFacts(_, _, _)
MergeImageFacts(info, image_facts, order) ==
    IF order = << >> THEN info
    ELSE LET key == Head(order)
             next_info ==
                 IF image_facts[key] # None
                    /\ (key \notin DOMAIN info \/ info[key] = None)
                 THEN Put(info, key, image_facts[key])
                 ELSE info
         IN  MergeImageFacts(next_info, image_facts, Tail(order))

\* variant: the placeholder reference is added whether or not one exists
image_handler_node_AlwaysAddsReference(state) ==
    LET refs == state.image_references
        has_ref == refs # << >>
        latest_image_ref == IF has_ref THEN refs[Len(refs)] ELSE 0
        has_data ==
            /\ has_ref
            /\ latest_image_ref \in DOMAIN state.image_analysis
            /\ "base64_data" \in DOMAIN state.image_analysis[latest_image_ref]
    IN  IF has_data
        THEN \* stored base64 data is never empty, so the image is analysed
             add_to_history(
                 [state EXCEPT
                    !.image_analysis[latest_image_ref] =
                        Put(@, "analysis", MockAnalysis),
                    !.extracted_info =
                        MergeImageFacts(@, ImageFacts, ImageFactOrder)],
                 "assistant", AnalysisSummary)
        ELSE LET s1 == add_to_history(state, "assistant", ImageReceivedMessage)
             IN  [s1 EXCEPT !.image_references = Append(@, Len(refs) + 1)]

image_handler_node(state) ==
    LET refs == state.image_references
        has_ref == refs # << >>
        latest_image_ref == IF has_ref THEN refs[Len(refs)] ELSE 0
        has_data ==
            /\ has_ref
            /\ latest_image_ref \in DOMAIN state.image_analysis
            /\ "base64_data" \in DOMAIN state.image_analysis[latest_image_ref]
    IN  IF has_data
        THEN \* stored base64 data is never empty, so the image is analysed
             add_to_history(
                 [state EXCEPT
                    !.image_analysis[latest_image_ref] =
                        Put(@, "analysis", MockAnalysis),
                    !.extracted_info =
                        MergeImageFacts(@, ImageFacts, ImageFactOrder)],
                 "assistant", AnalysisSummary)
        ELSE LET s1 == add_to_history(state, "assistant", ImageReceivedMessage)
             IN  IF ~has_ref
                 THEN [s1 EXCEPT !.image_references = Append(@, Len(refs) + 1)]
                 ELSE s1


\* ------------------------------------------------------------------------
\* graph.py : state_updater, question_generator, estimator_node,
\*            response_generator
\* ------------------------------------------------------------------------
\* variant: a turn with missing fields is sent to the estimator
state_updater_MissingToEstimator(state) ==
    LET s1 == IF state.user_input \notin BlankTexts
              THEN add_to_history(state, "user", state.user_input)
              ELSE state
        s2 == [s1 EXCEPT !.user_input = ""]
        missing_info == get_missing_info(s2.required_info, s2.extracted_info)
        history == s2.conversation_history
    IN  IF missing_info = << >> /\ s2.final_estimate # << >>
        THEN IF history[Len(history)].content \in EstimateKeywordTexts
             THEN [s2 EXCEPT !.final_estimate = << >>, !.next = "estimator"]
             ELSE [s2 EXCEPT !.next = "question_generator"]
        ELSE [s2 EXCEPT !.next = "estimator"]

\* variant: complete facts without an estimate are sent to the question
\* generator
state_updater_CompleteToQuestion(state) ==
    LET s1 == IF state.user_input \notin BlankTexts
              THEN add_to_history(state, "user", state.user_input)
              ELSE state
        s2 == [s1 EXCEPT !.user_input = ""]
        missing_info == get_missing_info(s2.required_info, s2.extracted_info)
        history == s2.conversation_history
    IN  IF missing_info = << >> /\ s2.final_estimate # << >>
        THEN IF history[Len(history)].content \in EstimateKeywordTexts
             THEN [s2 EXCEPT !.final_estimate = << >>, !.next = "estimator"]
             ELSE [s2 EXCEPT !.next = "question_generator"]
        ELSE [s2 EXCEPT !.next = "question_generator"]

\* variant: an existing estimate is regenerated on every turn, whatever the
\* message says
state_updater_AlwaysRegenerate(state) ==
    LET s1 == IF state.user_input \notin BlankTexts
              THEN add_to_history(state, "user", state.user_input)
              ELSE state
        s2 == [s1 EXCEPT !.user_input = ""]
        missing_info == get_missing_info(s2.required_info, s2.extracted_info)
    IN  IF missing_info = << >>
        THEN [s2 EXCEPT !.final_estimate = << >>, !.next = "estimator"]
        ELSE [s2 EXCEPT !.next = "question_generator"]

\* variant: the user input is not cleared after it was appended
state_updater_KeepsInput(state) ==
    LET s2 == IF state.user_input \notin BlankTexts
              THEN add_to_history(state, "user", state.user_input)
              ELSE state
        missing_info == get_missing_info(s2.required_info, s2.extracted_info)
        history == s2.conversation_history
    IN  IF missing_info = << >> /\ s2.final_estimate # << >>
        THEN IF history[Len(history)].content \in EstimateKeywordTexts
             THEN [s2 EXCEPT !.final_estimate = << >>, !.next = "estimator"]
             ELSE [s2 EXCEPT !.next = "question_generator"]
        ELSE IF missing_info = << >>
        THEN [s2 EXCEPT !.next = "estimator"]
        ELSE [s2 EXCEPT !.next = "question_generator"]

state_updater(state) ==
    LET s1 == IF state.user_input \notin BlankTexts
              THEN add_to_history(state, "user", state.user_input)
              ELSE state
        s2 == [s1 EXCEPT !.user_input = ""]
        missing_info == get_missing_info(s2.required_info, s2.extracted_info)
        history == s2.conversation_history
    IN  IF missing_info = << >> /\ s2.final_estimate # << >>
        THEN IF history[Len(history)].content \in EstimateKeywordTexts
             THEN [s2 EXCEPT !.final_estimate = << >>, !.next = "estimator"]
             ELSE [s2 EXCEPT !.next = "question_generator"]
        ELSE IF missing_info = << >>
        THEN [s2 EXCEPT !.next = "estimator"]
        ELSE [s2 EXCEPT !.next = "question_generator"]

\* variant: the question is appended but not kept as the pending question
question_generator_KeepsQuestion(state) ==
    LET missing_info == get_missing_info(state.required_info, state.extracted_info)
        last_user_message == LastUserContent(state.conversation_history)
        has_estimate == state.final_estimate # << >>
        next_question ==
            generate_next_question(missing_info, state.extracted_info,
                                   has_estimate, last_user_message)
    IN  [add_to_history(state, "assistant", next_question)
         EXCEPT !.next = "END"]

question_generator(state) ==
    LET missing_info == get_missing_info(state.required_info, state.extracted_info)
        last_user_message == LastUserContent(state.conversation_history)
        has_estimate == state.final_estimate # << >>
        next_question ==
            generate_next_question(missing_info, state.extracted_info,
                                   has_estimate, last_user_message)
    IN  [add_to_history([state EXCEPT !.current_question = next_question],
                        "assistant", next_question)
         EXCEPT !.next = "END"]

\* the pricing call shared by estimator_node and response_generator
Pricing(state) ==
    calculate_estimate(
        Get(state.extracted_info, "service_type", Str("roofing")).s,
        state.service_config, state.extracted_info, state.image_references)

\* the random draws a successful pricing call of this state consumes
Draws(state) ==
    IF Pricing(state).outcome = "ok"
    THEN [ScaledKeys(Pricing(state).result[1]) -> RandomFactors]
    ELSE {EmptyDict}

estimator_node(state, rnd) ==
    IF Pricing(state).outcome = "ok"
    THEN [state EXCEPT !.final_estimate =
              <<EstimateResultDict(Pricing(state).result[1], rnd)>>]
    ELSE state

\* variant: the closing message is left out
AddEstimateMessages_NoClosing(state) ==
    add_estimate_to_history(state, state.final_estimate[1])

AddEstimateMessages(state) ==
    add_to_history(add_estimate_to_history(state, state.final_estimate[1]),
                   "assistant", ClosingMessage)

response_generator(state, rnd) ==
    LET s1 ==
          IF state.final_estimate # << >>
          THEN AddEstimateMessages(state)
          ELSE IF get_missing_info(state.required_info, state.extracted_info) = << >>
          THEN IF Pricing(state).outcome = "ok"
               THEN AddEstimateMessages(estimator_node(state, rnd))
               ELSE add_to_history(state, "assistant", EstimateErrorMessage)
          ELSE state
    IN  [s1 EXCEPT !.next = "END"]

\* ------------------------------------------------------------------------
\* graph.py : process_user_message and handle_image_upload, up to the
\* invocation of the graph
\* ------------------------------------------------------------------------
\* questions the pre-extraction of a short reply tests for; "square footage"
\* or "area", "location" or "region", "material", "timeline"/"when"/"how soon"
PreAreaQuestionTexts == {QuestionSquareFootage}

PreLocationQuestionTexts == {QuestionLocation}

PreMaterialQuestionTexts ==
    {QuestionMaterialType, MaterialResponse, WarrantyResponse}

PreTimelineQuestionTexts == {QuestionTimeline, TimelineResponse}

\* region, material and timeline keywords found in a short reply
PreLocation(simple_input) ==
    IF simple_input = "south" THEN Str("south") ELSE None

PreMaterial(simple_input) ==
    IF simple_input = "metal" THEN Str("metal") ELSE None

PreTimeline(simple_input) == None

PreSquareFootage(simple_input) ==
    CASE simple_input = "1000" -> Num(1000)
      [] simple_input = "0"    -> Num(0)
      [] OTHER                 -> None

PreExtract(info, question, message) ==
    IF question \in PreAreaQuestionTexts /\ message \in DigitTexts
    THEN Put(info, "square_footage", PreSquareFootage(message))
    ELSE IF question \in PreLocationQuestionTexts
    THEN IF PreLocation(message) # None
         THEN Put(info, "location", PreLocation(message)) ELSE info
    ELSE IF question \in PreMaterialQuestionTexts
    THEN IF PreMaterial(message) # None
         THEN Put(info, "material_type", PreMaterial(message)) ELSE info
    ELSE IF question \in PreTimelineQuestionTexts
    THEN IF PreTimeline(message) # None
         THEN Put(info, "timeline", PreTimeline(message)) ELSE info
    ELSE info

\* variant: the copy the turn works on starts with an empty history
ChatInputState_FreshHistory(prev_state, message) ==
    [prev_state EXCEPT !.user_input = message, !.conversation_history = << >>]

\* variant: the turn starts from empty facts
ChatInputState_DropsFacts(prev_state, message) ==
    [prev_state EXCEPT !.user_input = message, !.extracted_info = EmptyDict]

\* the input_state process_user_message hands to the graph
ChatInputState(prev_state, message) ==
    LET input_state == [prev_state EXCEPT !.user_input = message]
    IN  IF message \in ShortTexts /\ prev_state.current_question # ""
        THEN [input_state EXCEPT !.extracted_info =
                 PreExtract(@, prev_state.current_question, message)]
        ELSE input_state

\* variant: every upload resets the estimate
UploadInputState_AlwaysReset(prev_state, file_description, image_data) ==
    LET s1 == [prev_state EXCEPT !.user_input = UploadText(file_description)]
        s2 == [s1 EXCEPT !.final_estimate = << >>]
        image_ref == Len(s2.image_references) + 1
        s3 == [s2 EXCEPT !.image_references = Append(@, image_ref)]
    IN  IF image_data # ""
        THEN [s3 EXCEPT !.image_analysis =
                 Put(@, image_ref, [base64_data |-> image_data])]
        ELSE s3

\* variant: the upload turn starts with an empty user input
UploadInputState_EmptyText(prev_state, file_description, image_data) ==
    LET s1 == [prev_state EXCEPT !.user_input = ""]
        s2 == IF file_description \in ResetDescriptions
              THEN [s1 EXCEPT !.final_estimate = << >>] ELSE s1
        image_ref == Len(s2.image_references) + 1
        s3 == [s2 EXCEPT !.image_references = Append(@, image_ref)]
    IN  IF image_data # ""
        THEN [s3 EXCEPT !.image_analysis =
                 Put(@, image_ref, [base64_data |-> image_data])]
        ELSE s3

\* the input_state handle_image_upload hands to the graph
UploadInputState(prev_state, file_description, image_data) ==
    LET s1 == [prev_state EXCEPT !.user_input = UploadText(file_description)]
        s2 == IF file_description \in ResetDescriptions
              THEN [s1 EXCEPT !.final_estimate = << >>] ELSE s1
        image_ref == Len(s2.image_references) + 1
        s3 == [s2 EXCEPT !.image_references = Append(@, image_ref)]
    IN  IF image_data # ""
        THEN [s3 EXCEPT !.image_analysis =
                 Put(@, image_ref, [base64_data |-> image_data])]
        ELSE s3


\* ------------------------------------------------------------------------
\* graph.py : create_graph
\* ------------------------------------------------------------------------
EntryPoint == "start"

\* variant: question_generator cycles back to input_processor
Edge_QuestionCycles(node, state) ==
    CASE node = "start"                 -> "input_processor"
      [] node = "input_processor"       -> state.next
      [] node = "image_handler"         -> "information_extractor"
      [] node = "information_extractor" -> "state_updater"
      [] node = "state_updater"         -> state.next
      [] node = "question_generator"    -> "input_processor"
      [] node = "estimator"             -> "response_generator"
      [] node = "response_generator"    -> "END"

\* add_edge / add_conditional_edges: the node that runs after `node`
Edge(node, state) ==
    CASE node = "start"                 -> "input_processor"
      [] node = "input_processor"       -> state.next
      [] node = "image_handler"         -> "information_extractor"
      [] node = "information_extractor" -> "state_updater"
      [] node = "state_updater"         -> state.next
      [] node = "question_generator"    -> "END"
      [] node = "estimator"             -> "response_generator"
      [] node = "response_generator"    -> "END"

\* the except branch of process_user_message / handle_image_upload
RequestErrorMessage ==
    "I'm sorry, I encountered an error processing your request. Please try again."

ImageErrorMessage ==
    "I'm sorry, I encountered an error processing your image. Please try again."

\* ------------------------------------------------------------------------
\* State
\* ------------------------------------------------------------------------
VARIABLES
    sessions,   \* main.py: sessions, session id -> GraphState
    st,         \* the input_state of the request in progress
    pc,         \* "idle", the graph node about to run, or "END"
    trace,      \* the nodes the graph has run for the request in progress
    req,        \* the request in progress
    turns,      \* chat and upload requests accepted so far
    overlap,    \* a second request of the session, in flight at the same time
    p_required, \* inputs and outputs of the estimator functions when they
    p_facts,    \*   are called on their own
    p_missing,
    p_pricing,
    p_question,
    p_calls

vars == <<sessions, st, pc, trace, req, turns, overlap,
          p_required, p_facts, p_missing, p_pricing, p_question, p_calls>>

pvars == <<p_required, p_facts, p_missing, p_pricing, p_question, p_calls>>

dvars == <<sessions, st, pc, trace, req, turns, overlap>>

NoQuestion == [has_estimate |-> FALSE, last_user_message |-> "", question |-> ""]

NoRequest ==
    [kind |-> "", session_id |-> "", message |-> "", file_description |-> ""]

\* a session id no session was created with
UnknownSessionId == "invalid_session_id"

\* variant: no session id is found in the store
SessionExists_Never(store, session_id) == FALSE

\* "session_id in sessions"
SessionExists(store, session_id) == session_id \in DOMAIN store

NoOverlap == [phase |-> "none", message |-> "", input_state |-> << >>]

Init ==
    /\ sessions = EmptyDict
    /\ st = NewGraphState(SessionId, "")
    /\ pc = "idle"
    /\ trace = << >>
    /\ req = NoRequest
    /\ turns = 0
    /\ overlap = NoOverlap
    /\ p_required = << >>
    /\ p_facts = EmptyDict
    /\ p_missing = << >>
    /\ p_pricing = [outcome |-> "", result |-> << >>]
    /\ p_question = NoQuestion
    /\ p_calls = {}

\* ------------------------------------------------------------------------
\* main.py : the HTTP handlers, up to the invocation of the graph
\* ------------------------------------------------------------------------
\* POST /api/session: process_user_message(session_id, "") without prev_state
create_new_session ==
    /\ pc = "idle"
    /\ SessionId \notin DOMAIN sessions
    /\ st' = NewGraphState(SessionId, "")
    /\ req' = [kind |-> "create", session_id |-> SessionId, message |-> "",
               file_description |-> ""]
    /\ pc' = EntryPoint
    /\ trace' = << >>
    /\ UNCHANGED <<sessions, turns>>
    /\ UNCHANGED pvars
    /\ UNCHANGED overlap

\* POST /api/chat
chat(message) ==
    /\ pc = "idle"
    /\ SessionExists(sessions, SessionId)
    /\ turns < MaxTurns
    /\ sessions' = [sessions EXCEPT ![SessionId].user_input = message]
    /\ st' = ChatInputState(sessions'[SessionId], message)
    /\ req' = [kind |-> "chat", session_id |-> SessionId, message |-> message,
               file_description |-> ""]
    /\ pc' = EntryPoint
    /\ trace' = << >>
    /\ turns' = turns + 1
    /\ UNCHANGED pvars
    /\ UNCHANGED overlap

\* POST /api/upload
upload_file(file_description, image_data) ==
    /\ pc = "idle"
    /\ SessionExists(sessions, SessionId)
    /\ turns < MaxTurns
    /\ st' = UploadInputState(sessions[SessionId], file_description, image_data)
    /\ req' = [kind |-> "upload", session_id |-> SessionId,
               message |-> UploadText(file_description),
               file_description |-> file_description]
    /\ pc' = EntryPoint
    /\ trace' = << >>
    /\ turns' = turns + 1
    /\ UNCHANGED sessions
    /\ UNCHANGED pvars
    /\ UNCHANGED overlap

\* ------------------------------------------------------------------------
\* The graph run: one action per node
\* ------------------------------------------------------------------------
RunNode(node, new_state) ==
    /\ pc = node
    /\ st' = new_state
    /\ pc' = Edge(node, new_state)
    /\ trace' = Append(trace, node)
    /\ UNCHANGED <<sessions, req, turns>>
    /\ UNCHANGED pvars
    /\ UNCHANGED overlap

\* an exception inside a node: the except branch appends the apology to
\* input_state and returns it
RaiseInNode(node) ==
    /\ pc = node
    /\ st' = add_to_history(st, "assistant",
                 IF req.kind = "upload" THEN ImageErrorMessage
                 ELSE RequestErrorMessage)
    /\ pc' = "END"
    /\ trace' = Append(trace, node)
    /\ UNCHANGED <<sessions, req, turns>>
    /\ UNCHANGED pvars
    /\ UNCHANGED overlap

StartNode == RunNode("start", start_node(st))

InputProcessor == RunNode("input_processor", input_processor(st))

ImageHandlerNode == RunNode("image_handler", image_handler_node(st))

InformationExtractor == RunNode("information_extractor", information_extractor(st))

StateUpdater == RunNode("state_updater", state_updater(st))

QuestionGenerator == RunNode("question_generator", question_generator(st))

EstimatorNode ==
    IF Pricing(st).outcome = "raise"
    THEN RaiseInNode("estimator")
    ELSE \E rnd \in Draws(st) : RunNode("estimator", estimator_node(st, rnd))

ResponseGenerator ==
    IF st.final_estimate = << >> /\ Pricing(st).outcome = "raise"
    THEN RaiseInNode("response_generator")
    ELSE \E rnd \in (IF st.final_estimate = << >> THEN Draws(st) ELSE {EmptyDict}) :
            RunNode("response_generator", response_generator(st, rnd))

\* main.py: sessions[session_id] = result
ReturnResult ==
    /\ pc = "END"
    /\ sessions' = Put(sessions, SessionId, st)
    /\ pc' = "idle"
    /\ UNCHANGED <<st, trace, req, turns>>
    /\ UNCHANGED pvars
    /\ UNCHANGED overlap

Next ==
    \/ create_new_session
    \/ \E message \in ChatTexts : chat(message)
    \/ \E file_description \in Descriptions, image_data \in ImageData :
          upload_file(file_description, image_data)
    \/ StartNode
    \/ InputProcessor
    \/ ImageHandlerNode
    \/ InformationExtractor
    \/ StateUpdater
    \/ QuestionGenerator
    \/ EstimatorNode
    \/ ResponseGenerator
    \/ ReturnResult

Spec == Init /\ [][Next]_vars


\* ------------------------------------------------------------------------
\* The estimator functions called on their own (as tests/test_estimator.py
\* calls them): any required list, any facts dict
\* ------------------------------------------------------------------------
Absent == [t |-> "absent", s |-> "", n |-> 0]

\* the dict holding the given value for every field whose value is not Absent
MakeDict(values) ==
    [k \in {f \in DOMAIN values : values[f] # Absent} |-> values[k]]

ServiceTypeValues == {Absent, Str("roofing")}

SquareFootageValues == {Absent, None, Num(0), Num(1000), Num(2000), Str("abc")}

LocationValues ==
    {Absent, Str(""), Str("northeast"), Str("Northeast"), Str(" south "), Str("west")}

MaterialTypeValues == {Absent, None, Str("asphalt"), Str("METAL"), Str("cedar")}

TimelineValues == {Absent, Str(""), Str("standard"), Str("expedited"), Str("someday")}

FactDicts ==
    { MakeDict([service_type |-> a, square_footage |-> b, location |-> c,
                material_type |-> d, timeline |-> e]) :
        a \in ServiceTypeValues, b \in SquareFootageValues, c \in LocationValues,
        d \in MaterialTypeValues, e \in TimelineValues }

RequiredLists ==
    {RequiredInfo, <<"timeline", "square_footage">>, <<"location", "warranty">>}

InitEstimator ==
    /\ sessions = EmptyDict
    /\ st = NewGraphState(SessionId, "")
    /\ pc = "idle"
    /\ trace = << >>
    /\ req = NoRequest
    /\ turns = 0
    /\ overlap = NoOverlap
    /\ p_required \in RequiredLists
    /\ p_facts \in FactDicts
    /\ p_missing = << >>
    /\ p_pricing = [outcome |-> "", result |-> << >>]
    /\ p_question = NoQuestion
    /\ p_calls = {}

\* missing = get_missing_info(required_info, extracted_info)
CallGetMissingInfo ==
    /\ "get_missing_info" \notin p_calls
    /\ p_missing' = get_missing_info(p_required, p_facts)
    /\ p_calls' = p_calls \cup {"get_missing_info"}
    /\ UNCHANGED <<p_required, p_facts, p_pricing, p_question>>
    /\ UNCHANGED dvars

\* result, success = calculate_estimate("roofing", service_config, extracted_info)
CallCalculateEstimate ==
    /\ "calculate_estimate" \notin p_calls
    /\ p_pricing' = calculate_estimate("roofing", "roofing", p_facts, << >>)
    /\ p_calls' = p_calls \cup {"calculate_estimate"}
    /\ UNCHANGED <<p_required, p_facts, p_missing, p_question>>
    /\ UNCHANGED dvars

NextEstimator ==
    \/ CallGetMissingInfo
    \/ CallCalculateEstimate

SpecEstimator == InitEstimator /\ [][NextEstimator]_vars


\* ------------------------------------------------------------------------
\* Properties of the estimator functions (checked under SpecEstimator)
\* ------------------------------------------------------------------------
\* the spec's notion of a missing field: absent, null or the empty string
EmptyOrNull(field, facts) ==
    field \notin DOMAIN facts \/ facts[field] = None \/ facts[field] = Str("")

\* the code's notion: absent, null, the empty string or the number zero
EmptyNullOrZero(field, facts) ==
    EmptyOrNull(field, facts) \/ facts[field] = Num(0)

SpecMissingTest(field) == EmptyOrNull(field, p_facts)

CodeMissingTest(field) == EmptyNullOrZero(field, p_facts)

\* C8 as stated: get_missing_info returns the required fields, in the order of
\* required_fields, that are absent from facts or map to an empty string or
\* null, and returns the empty list iff every required field is non-empty.
C8_MissingIsAbsentEmptyOrNull ==
    "get_missing_info" \in p_calls =>
        /\ p_missing = SelectSeq(p_required, SpecMissingTest)
        /\ (p_missing = << >>) <=>
              (\A i \in 1..Len(p_required) : ~EmptyOrNull(p_required[i], p_facts))

\* C8 amended: get_missing_info returns the required fields, in the order of
\* required_fields, that are absent from facts or map to a falsy value (null,
\* the empty string or the number zero), and returns the empty list iff every
\* required field maps to a value that is none of these.
C8_MissingIsAbsentOrFalsy ==
    "get_missing_info" \in p_calls =>
        /\ p_missing = SelectSeq(p_required, CodeMissingTest)
        /\ \A i \in 1..Len(p_missing) :
              \E j \in 1..Len(p_required) : p_missing[i] = p_required[j]
        /\ (p_missing = << >>) <=>
              (\A i \in 1..Len(p_required) : ~EmptyNullOrZero(p_required[i], p_facts))

\* a zero area and an empty region are both reported, in required order
C8_Witness ==
    /\ "get_missing_info" \in p_calls
    /\ p_required = RequiredInfo
    /\ "square_footage" \in DOMAIN p_facts
    /\ p_facts["square_footage"] = Num(0)
    /\ p_missing = <<"square_footage", "location">>

\* C9 as stated: calculate_estimate returns the incomplete outcome exactly
\* when a required field of the profile is missing from facts, returns a
\* result with success = true otherwise, and never raises.
C9_IncompleteIffMissingNeverRaises ==
    "calculate_estimate" \in p_calls =>
        /\ p_pricing.outcome # "raise"
        /\ (p_pricing.outcome = "incomplete") <=>
              (get_missing_info(RequiredInfo, p_facts) # << >>)
        /\ (p_pricing.outcome = "ok") <=>
              (get_missing_info(RequiredInfo, p_facts) = << >>)

C14_UnknownKeyIsNeutral ==
    ( /\ "calculate_estimate" \in p_calls
      /\ HasAllRequired("roofing", p_facts)
      /\ ~FloatRaises(p_facts["square_footage"]) )
    => /\ p_pricing.outcome = "ok"
       /\ Lower(p_facts["material_type"].s) \notin DOMAIN Materials
            => p_pricing.result[1].material_cost = 0
       /\ Lower(p_facts["location"].s) \notin DOMAIN Regions
            => p_pricing.result[1].region_adjustment = 0
       /\ Lower(p_facts["timeline"].s) \notin DOMAIN TimelineMultipliers
            => p_pricing.result[1].timeline_adjustment = 0

\* a request priced with three unknown keys: the total is base cost plus fee
C14_Witness ==
    /\ "calculate_estimate" \in p_calls
    /\ p_pricing.outcome = "ok"
    /\ p_pricing.result[1].material_type = "cedar"
    /\ p_pricing.result[1].location = " south "
    /\ p_pricing.result[1].timeline = "someday"
    /\ p_pricing.result[1].total_estimate
         = p_pricing.result[1].base_cost + PermitFee

\* str.strip on the strings of the model
Strip(x) == IF x = " south " THEN "south" ELSE x

\* the facts with every string lowercased and stripped of surrounding blanks
NormalisedFacts(facts) ==
    [f \in DOMAIN facts |->
        IF facts[f].t = "str" THEN Str(Strip(Lower(facts[f].s))) ELSE facts[f]]

\* C15: the multiplier lookups are case-insensitive and trimmed: a request
\* is priced as the same request with its location, material and timeline
\* lowercased and stripped of surrounding blanks.
C15_LookupIgnoresCaseAndBlanks ==
    ("calculate_estimate" \in p_calls /\ p_pricing.outcome = "ok")
    => \A k \in MoneyKeys :
          p_pricing.result[1][k]
            = PricingResult("roofing", "roofing", NormalisedFacts(p_facts), << >>)[k]

\* ------------------------------------------------------------------------
\* Properties of the conversation graph (checked under Spec)
\* ------------------------------------------------------------------------
\* the step about to be taken is the run of the given node
NodeStep(node) == pc = node /\ trace' = Append(trace, node)

\* history extended by exactly the given number of entries
Appended(old, new, n) ==
    /\ Len(new) = Len(old) + n
    /\ SubSeq(new, 1, Len(old)) = old

\* the history holds the text as a user message
UserSaid(history, text) ==
    \E i \in DOMAIN history :
        history[i].role = "user" /\ history[i].content = text

\* node has run in the request in progress
InTrace(node) == \E i \in DOMAIN trace : trace[i] = node

\* get_missing_info on the state of the request in progress; no node after
\* information_extractor writes extracted_info or required_info
MissingNow == get_missing_info(st.required_info, st.extracted_info)

LastEntry(history) == history[Len(history)]

\* the estimate the state held when state_updater ran: the stored one, unless
\* handle_image_upload reset it before the graph was invoked
RouteSawEstimate ==
    /\ SessionId \in DOMAIN sessions
    /\ sessions[SessionId].final_estimate # << >>
    /\ ~(req.kind = "upload" /\ req.file_description \in ResetDescriptions)

RouteSawNoEstimate ==
    /\ SessionId \in DOMAIN sessions
    /\ \/ sessions[SessionId].final_estimate = << >>
       \/ (req.kind = "upload" /\ req.file_description \in ResetDescriptions)

\* C1: when state_updater runs with at least one required field missing, the
\* turn goes to question_generator and never to the estimator, and the
\* question emitted is the canned prompt of the first missing field in
\* required order.
C1_MissingRoutesToFirstPrompt ==
    (pc # "idle" /\ InTrace("state_updater") /\ MissingNow # << >>) =>
        /\ pc \in {"question_generator", "END"}
        /\ ~InTrace("estimator")
        /\ ~InTrace("response_generator")
        /\ pc = "END" =>
              /\ InTrace("question_generator")
              /\ st.current_question = Questions(MissingNow[1])
              /\ LastEntry(st.conversation_history).role = "assistant"
              /\ LastEntry(st.conversation_history).content = Questions(MissingNow[1])

\* a chat turn that ends on the region prompt because location is the first
\* missing field
C1_Witness ==
    /\ pc = "END"
    /\ req.kind = "chat"
    /\ InTrace("question_generator")
    /\ MissingNow # << >>
    /\ MissingNow[1] = "location"
    /\ st.current_question = QuestionLocation

\* C2: when state_updater runs with no required field missing and no
\* estimate in the state, the turn goes to the estimator and not to
\* question_generator, and at the end of the turn an estimate is stored.
C2_CompleteRoutesToEstimator ==
    (pc # "idle" /\ InTrace("state_updater") /\ RouteSawNoEstimate
       /\ MissingNow = << >>) =>
        /\ pc \in {"estimator", "response_generator", "END"}
        /\ ~InTrace("question_generator")
        /\ pc \in {"response_generator", "END"} =>
              /\ InTrace("estimator")
              /\ st.final_estimate # << >>

\* the end of a chat turn that computed the session's first estimate
C2_Witness ==
    /\ pc = "END"
    /\ req.kind = "chat"
    /\ SessionId \in DOMAIN sessions
    /\ sessions[SessionId].final_estimate = << >>
    /\ InTrace("estimator")
    /\ st.final_estimate # << >>

FollowUpResponses ==
    {GreetingResponse, GratitudeResponse, TimelineResponse, MaterialResponse,
     WarrantyResponse, ClarifyResponse}

\* C3: when an estimate exists, no required field is missing and the user's
\* message holds no estimate keyword, the turn goes to question_generator,
\* which answers with a contextual follow-up (the gratitude response for
\* "Thanks!"); the stored estimate is unchanged and neither node that calls
\* calculate_estimate runs.
C3_FollowUpKeepsEstimate ==
    (pc # "idle" /\ InTrace("state_updater") /\ RouteSawEstimate
       /\ MissingNow = << >> /\ req.message \notin EstimateKeywordTexts) =>
        /\ pc \in {"question_generator", "END"}
        /\ ~InTrace("estimator")
        /\ ~InTrace("response_generator")
        /\ st.final_estimate = sessions[SessionId].final_estimate
        /\ pc = "END" =>
              /\ InTrace("question_generator")
              /\ st.current_question \in FollowUpResponses
              /\ LastEntry(st.conversation_history).content = st.current_question
              /\ req.message = "Thanks!" => st.current_question = GratitudeResponse

\* "Thanks!" sent to a session that holds an estimate
C3_Witness ==
    /\ pc = "END"
    /\ req.message = "Thanks!"
    /\ RouteSawEstimate
    /\ MissingNow = << >>
    /\ st.current_question = GratitudeResponse

\* user texts that contain one of the spec's recompute keywords
\* "new estimate", "recalculate", "different", "change"
SpecRecomputeTexts ==
    {RecalculateText, "something different", "I've uploaded an image: different roof"}

\* C4 as stated: when state_updater runs with an estimate, no missing field
\* and a user message that contains "new estimate", "recalculate",
\* "different" or "change", it clears the estimate and goes to the estimator,
\* leaving extracted_info as it was.
C4_SpecKeywordsRecompute ==
    [][ (/\ pc = "state_updater"
         /\ MissingNow = << >>
         /\ st.final_estimate # << >>
         /\ req.message \in SpecRecomputeTexts)
        => (/\ pc' = "estimator"
            /\ st'.final_estimate = << >>
            /\ st'.extracted_info = st.extracted_info) ]_vars

\* C4 amended: when state_updater runs with an estimate, no missing field and
\* a user message that contains "new estimate", "recalculate", "update
\* estimate", "different materials" or "change", it clears the estimate and
\* goes to the estimator, leaving extracted_info as it was.  Of the user
\* texts of the model only RecalculateText contains one of these keywords.
C4_CodeKeywordsRecompute ==
    [][ (/\ pc = "state_updater"
         /\ MissingNow = << >>
         /\ st.final_estimate # << >>
         /\ req.message \in {RecalculateText})
        => (/\ pc' = "estimator"
            /\ st'.final_estimate = << >>
            /\ st'.extracted_info = st.extracted_info) ]_vars

\* the estimator about to run again after "recalculate with metal roofing"
C4_Witness ==
    /\ pc = "estimator"
    /\ req.message = RecalculateText
    /\ SessionId \in DOMAIN sessions
    /\ sessions[SessionId].final_estimate # << >>
    /\ st.final_estimate = << >>

Nodes ==
    {"start", "input_processor", "image_handler", "information_extractor",
     "state_updater", "question_generator", "estimator", "response_generator"}

\* C5: every turn terminates: no node runs twice in a turn, so a turn runs at
\* most as many nodes as the graph has; a turn in progress is always at a node
\* of the graph or at its END; and once question_generator or
\* response_generator has run no node runs until the next request.
C5_TurnTerminates ==
    /\ \A i, j \in DOMAIN trace : trace[i] = trace[j] => i = j
    /\ \A i \in DOMAIN trace : trace[i] \in Nodes
    /\ pc \in Nodes \cup {"END", "idle"}
    /\ Len(trace) <= Cardinality(Nodes)
    /\ (trace # << >> /\ trace[Len(trace)] \in {"question_generator", "response_generator"})
          => pc \in {"END", "idle"}
    /\ pc \in {"END", "idle"}
          => (trace = << >> \/ trace[Len(trace)] \in {"question_generator", "response_generator"})

\* an upload turn that ran the longest path of the graph
C5_Witness ==
    /\ pc = "idle"
    /\ req.kind = "upload"
    /\ trace = <<"start", "input_processor", "image_handler",
                 "information_extractor", "state_updater", "estimator",
                 "response_generator">>

WelcomeCount(history) ==
    Cardinality({i \in DOMAIN history : history[i].content = WelcomeMessage})

\* C6: start_node runs only in the request that creates the session, and the
\* welcome message appears exactly once in the history of a session.
C6_WelcomeOnce ==
    /\ InTrace("start") => req.kind = "create"
    /\ SessionId \in DOMAIN sessions =>
          WelcomeCount(sessions[SessionId].conversation_history) = 1

\* the user asked for a new estimate in request r
RecomputeRequested(r) ==
    \/ r.message \in EstimateKeywordTexts
    \/ (r.kind = "upload" /\ r.file_description \in ResetDescriptions)

\* C7: an estimate stored in the session is still stored, with the same
\* field values, after every step of a chat or upload request that did not
\* ask for a new estimate.
C7_EstimatePersists ==
    [][ (/\ SessionId \in DOMAIN sessions
         /\ sessions[SessionId].final_estimate # << >>
         /\ ~RecomputeRequested(req'))
        => sessions'[SessionId].final_estimate
              = sessions[SessionId].final_estimate ]_vars

\* a finished upload turn that did not price: the estimate it returns is the
\* one the session held before
C7_Witness ==
    /\ pc = "idle"
    /\ req.kind = "upload"
    /\ ~RecomputeRequested(req)
    /\ ~InTrace("estimator")
    /\ SessionId \in DOMAIN sessions
    /\ sessions[SessionId].final_estimate # << >>


\* the facts and image references a stored estimate was priced from
SamePricingInputs(a, b) ==
    /\ a.service_type = b.service_type
    /\ a.square_footage = b.square_footage
    /\ a.location = b.location
    /\ a.material_type = b.material_type
    /\ a.timeline = b.timeline
    /\ a.image_references = b.image_references

\* C12: two runs of the estimator on the same profile and the same facts
\* store estimates that are identical in every field; here the run of the
\* turn in progress against the estimate stored by an earlier turn.
C12_SameFactsSameEstimate ==
    ( /\ pc = "END"
      /\ InTrace("estimator")
      /\ SessionId \in DOMAIN sessions
      /\ sessions[SessionId].final_estimate # << >>
      /\ st.final_estimate # << >>
      /\ SamePricingInputs(sessions[SessionId].final_estimate[1],
                           st.final_estimate[1]) )
    => st.final_estimate[1] = sessions[SessionId].final_estimate[1]

\* estimates held by the state of the request in progress or by the session
EstimatesInState ==
    { st.final_estimate[i] : i \in DOMAIN st.final_estimate }
      \cup (IF SessionId \in DOMAIN sessions
            THEN { sessions[SessionId].final_estimate[i] :
                     i \in DOMAIN sessions[SessionId].final_estimate }
            ELSE {})

\* C13: every estimate held in conversation state has price_range_low =
\* total * (1 - fraction), price_range_high = total * (1 + fraction) and
\* total_estimate = base_cost + material_cost + region_adjustment +
\* timeline_adjustment + permit_fee.
C13_StoredEstimateFormulas ==
    \A e \in EstimatesInState :
        /\ e.price_range_low * 100 = e.total_estimate * (100 - PriceRangePercentage)
        /\ e.price_range_high * 100 = e.total_estimate * (100 + PriceRangePercentage)
        /\ e.total_estimate = e.base_cost + e.material_cost + e.region_adjustment
                                + e.timeline_adjustment + e.permit_fee


\* ------------------------------------------------------------------------
\* utils.py : generate_next_question called on its own, as the tests do
\* ------------------------------------------------------------------------
\* missing_info arguments: lists of required fields, some with field names
\* that have no canned prompt
MissingLists ==
    {<< >>, RequiredInfo, <<"square_footage", "location">>, <<"material_type">>,
     <<"timeline", "roof_pitch">>, <<"roof_pitch", "timeline">>, <<"warranty">>}

InitQuestion ==
    /\ sessions = EmptyDict
    /\ st = NewGraphState(SessionId, "")
    /\ pc = "idle"
    /\ trace = << >>
    /\ req = NoRequest
    /\ turns = 0
    /\ overlap = NoOverlap
    /\ p_required = << >>
    /\ p_facts = MakeDict([service_type |-> Str("roofing")])
    /\ p_missing \in MissingLists
    /\ p_pricing = [outcome |-> "", result |-> << >>]
    /\ p_question = NoQuestion
    /\ p_calls = {}

\* question = generate_next_question(missing_info, extracted_info,
\*                                   has_estimate, last_user_message)
CallGenerateNextQuestion(has_estimate, last_user_message) ==
    /\ "generate_next_question" \notin p_calls
    /\ p_question' =
          [has_estimate      |-> has_estimate,
           last_user_message |-> last_user_message,
           question          |-> generate_next_question(p_missing, p_facts,
                                     has_estimate, last_user_message)]
    /\ p_calls' = p_calls \cup {"generate_next_question"}
    /\ UNCHANGED <<p_required, p_facts, p_missing, p_pricing>>
    /\ UNCHANGED dvars

NextQuestion ==
    \E has_estimate \in BOOLEAN, last_user_message \in FollowUpTexts :
        CallGenerateNextQuestion(has_estimate, last_user_message)

SpecQuestion == InitQuestion /\ [][NextQuestion]_vars

\* ------------------------------------------------------------------------
\* Properties of generate_next_question (checked under SpecQuestion)
\* ------------------------------------------------------------------------
\* C16: with a non-empty missing_info list the question is the canned prompt
\* of missing_info[0], whatever the other missing fields, has_estimate and
\* last_user_message are; a field with no canned prompt gets the templated
\* "Please provide information about <field>." prompt (underscores of the
\* field name shown as blanks).
C16_FirstMissingPrompt ==
    ("generate_next_question" \in p_calls /\ p_missing # << >>)
    => /\ p_missing[1] = "service_type" => p_question.question = QuestionServiceType
       /\ p_missing[1] = "square_footage"
            => p_question.question = QuestionSquareFootage
       /\ p_missing[1] = "location" => p_question.question = QuestionLocation
       /\ p_missing[1] = "material_type"
            => p_question.question = QuestionMaterialType
       /\ p_missing[1] = "timeline" => p_question.question = QuestionTimeline
       /\ p_missing[1] = "warranty"
            => p_question.question = "Please provide information about warranty."
       /\ p_missing[1] = "roof_pitch"
            => p_question.question = "Please provide information about roof pitch."
       /\ p_missing[1] \in {"service_type", "square_footage", "location",
                            "material_type", "timeline", "warranty", "roof_pitch"}

\* an unknown first field, a known second one, an estimate and a greeting
C16_Witness ==
    /\ "generate_next_question" \in p_calls
    /\ p_missing = <<"roof_pitch", "timeline">>
    /\ p_question.has_estimate
    /\ p_question.last_user_message = "Hello"
    /\ p_question.question = "Please provide information about roof pitch."

\* any of "hi", "hello", "hey" in text.lower(), on FollowUpTexts
GreetingKeywordTexts == {"Hello", "hi there"}

\* response of the first category of the ordered list that text matches
FirstCategoryResponse(text, greeting) ==
    IF text \in greeting THEN GreetingResponse
    ELSE IF text \in ThankTexts THEN GratitudeResponse
    ELSE IF text \in TimelineInquiryTexts THEN TimelineResponse
    ELSE IF text \in MaterialInquiryTexts THEN MaterialResponse
    ELSE IF text \in WarrantyInquiryTexts THEN WarrantyResponse
    ELSE ClarifyResponse

\* C17 as stated: with nothing missing and an estimate, the text is matched
\* against greeting, gratitude, timeline, material, warranty in that order,
\* every category by keyword containment, and the first match's response is
\* returned; no match gives the clarify response.
C17_AllByContainment ==
    ( /\ "generate_next_question" \in p_calls
      /\ p_missing = << >>
      /\ p_question.has_estimate )
    => p_question.question
         = FirstCategoryResponse(p_question.last_user_message, GreetingKeywordTexts)

\* C17 (amended): as above, except that the greeting category matches only
\* a text that is, case-insensitively, exactly "hi", "hello" or "hey"; a
\* text matching both gratitude and warranty yields the gratitude response.
C17_GreetingByEquality ==
    ( /\ "generate_next_question" \in p_calls
      /\ p_missing = << >>
      /\ p_question.has_estimate )
    => /\ p_question.question
            = FirstCategoryResponse(p_question.last_user_message, {"Hello"})
       /\ p_question.last_user_message = "Thank you! Do you offer any warranty?"
            => p_question.question = GratitudeResponse
       /\ p_question.last_user_message \in {"", "ok", "hi there"}
            => p_question.question = ClarifyResponse

\* a text with both "thank" and "warranty" answered with the gratitude response
C17_Witness ==
    /\ "generate_next_question" \in p_calls
    /\ p_missing = << >>
    /\ p_question.has_estimate
    /\ p_question.last_user_message = "Thank you! Do you offer any warranty?"
    /\ p_question.question = GratitudeResponse

\* ------------------------------------------------------------------------
\* Properties of the replies of a turn (checked under Spec)
\* ------------------------------------------------------------------------
\* C18: with nothing missing and no estimate generate_next_question returns
\* the fixed "ready" message, whatever the facts and the last user message
\* are; and a turn on a session that holds an estimate never ends with that
\* message as the assistant's reply.
C18_ReadyOnlyWithoutEstimate ==
    /\ \A text \in FollowUpTexts \cup {LastUserContent(st.conversation_history)} :
          generate_next_question(<< >>, st.extracted_info, FALSE, text) = ReadyMessage
    /\ ( /\ pc = "END"
         /\ SessionId \in DOMAIN sessions
         /\ sessions[SessionId].final_estimate # << >> )
       => LastAssistantContent(st.conversation_history) # ReadyMessage

\* a follow-up turn that kept the estimate and was answered by
\* question_generator with the clarify response
C18_Witness ==
    /\ pc = "END"
    /\ SessionId \in DOMAIN sessions
    /\ sessions[SessionId].final_estimate # << >>
    /\ st.final_estimate = sessions[SessionId].final_estimate
    /\ MissingNow = << >>
    /\ LastEntry(trace) = "question_generator"
    /\ req.message = "something different"
    /\ LastAssistantContent(st.conversation_history) = ClarifyResponse

\* ------------------------------------------------------------------------
\* graph.py : the try / except around the graph run in process_user_message
\* and handle_image_upload. SpecFault is Spec plus a run of the graph that
\* raises: in a node (pricing a non-numeric area, a failing collaborator) or
\* in GraphState.parse_obj on the graph's result, where pc = "END". The
\* raise is taken at the start of the step, on the state the earlier steps
\* left in input_state.
\* ------------------------------------------------------------------------
\* variant: the except branch returns input_state without a message
ExceptBranch_NoApology(input_state, kind) == input_state

\* variant: the except branch starts over from an empty state
ExceptBranch_LosesConversation(input_state, kind) ==
    add_to_history(NewGraphState(input_state.session_id, input_state.user_input),
                   "assistant",
                   IF kind = "upload" THEN ImageErrorMessage
                   ELSE RequestErrorMessage)

\* "input_state.add_to_history('assistant', <apology>); return input_state"
ExceptBranch(input_state, kind) ==
    add_to_history(input_state, "assistant",
                   IF kind = "upload" THEN ImageErrorMessage
                   ELSE RequestErrorMessage)

Raised == \E i \in DOMAIN trace : trace[i] = "except"

\* failed runs explored per session
MaxFaults == 1

\* apologies of failed runs in a history
FaultCount(history) ==
    Cardinality({i \in DOMAIN history :
                   history[i].content \in {RequestErrorMessage, ImageErrorMessage}})

GraphRaises ==
    /\ pc \in Nodes \cup {"END"}
    /\ ~Raised
    /\ FaultCount(st.conversation_history) < MaxFaults
    /\ st' = ExceptBranch(st, req.kind)
    /\ pc' = "END"
    /\ trace' = Append(trace, "except")
    /\ UNCHANGED <<sessions, req, turns>>
    /\ UNCHANGED pvars
    /\ UNCHANGED overlap

NextFault ==
    \/ Next
    \/ GraphRaises

SpecFault == Init /\ [][NextFault]_vars

\* ------------------------------------------------------------------------
\* Properties of failing runs (checked under SpecFault)
\* ------------------------------------------------------------------------
\* history of the session when the request in progress arrived
PrevHistory ==
    IF SessionId \in DOMAIN sessions
    THEN sessions[SessionId].conversation_history ELSE << >>

PrevState ==
    IF SessionId \in DOMAIN sessions
    THEN sessions[SessionId] ELSE NewGraphState(SessionId, "")

Apology == IF req.kind = "upload" THEN ImageErrorMessage ELSE RequestErrorMessage

C21_ExtractionFailureContinues ==
    [][ (pc = "information_extractor" /\ st.user_input \notin BlankTexts)
          => /\ pc' = "state_updater"
             /\ Raised' => st'.extracted_info = st.extracted_info ]_vars

\* ------------------------------------------------------------------------
\* graph.py : a node called on a state built by hand, as tests/test_graph.py
\* does, and the wiring of create_graph followed from that node on
\* ------------------------------------------------------------------------
\* calls of state_updater in a row explored
MaxCalls == 2

DirectInputs ==
    {"", "   ", "Thanks!", RecalculateText, "1000", "see my photo",
     "PICTURE attached"}

CompleteFacts ==
    MakeDict([service_type |-> Str("roofing"), square_footage |-> Num(2000),
              location |-> Str("northeast"), material_type |-> Str("asphalt"),
              timeline |-> Str("standard")])

DirectFacts ==
    {EmptyDict,
     MakeDict([service_type |-> Str("roofing")]),
     MakeDict([service_type |-> Str("roofing"), square_footage |-> Num(2000),
               location |-> Str("northeast"), material_type |-> Str("asphalt")]),
     CompleteFacts}

\* an estimate as estimator_node stores it for CompleteFacts, or none
DirectEstimates ==
    LET result == PricingResult("roofing", "roofing", CompleteFacts, << >>)
    IN  {<< >>,
         <<EstimateResultDict(result, [k \in ScaledKeys(result) |-> 10])>>}

DirectHistories ==
    {<<Message("assistant", WelcomeMessage),
       Message("assistant", QuestionServiceType)>>,
     <<Message("assistant", WelcomeMessage),
       Message("assistant", QuestionServiceType),
       Message("user", RecalculateText)>>}

\* required_info as the roofing profile has it, or cut down to one field as
\* in test_state_updater
DirectRequired == {RequiredInfo, <<"service_type">>}

\* GraphState(session_id=..., user_input=..., required_info=..., ...)
DirectStates ==
    { [NewGraphState(SessionId, user_input) EXCEPT
          !.required_info = required_info,
          !.service_config = "roofing",
          !.extracted_info = facts,
          !.final_estimate = estimate,
          !.conversation_history = history] :
        user_input \in DirectInputs, required_info \in DirectRequired,
        facts \in DirectFacts,
        estimate \in DirectEstimates, history \in DirectHistories }

InitNodes ==
    /\ sessions = EmptyDict
    /\ st \in DirectStates
    /\ pc = "direct"
    /\ trace = << >>
    /\ req = NoRequest
    /\ turns = 0
    /\ overlap = NoOverlap
    /\ p_required = << >>
    /\ p_facts = EmptyDict
    /\ p_missing = << >>
    /\ p_pricing = [outcome |-> "", result |-> << >>]
    /\ p_question = NoQuestion
    /\ p_calls = {}

\* result = state_updater(state), the graph not involved
CallStateUpdater ==
    /\ pc = "direct"
    /\ Len(trace) < MaxCalls
    /\ st' = state_updater(st)
    /\ trace' = Append(trace, "state_updater")
    /\ UNCHANGED <<sessions, pc, req, turns>>
    /\ UNCHANGED pvars
    /\ UNCHANGED overlap

\* the nodes a run is entered at
DirectEntries == {"input_processor", "estimator"}

\* the graph entered at a node: the edges of create_graph decide what runs
\* after it
EnterAt(node) ==
    /\ pc = "direct"
    /\ trace = << >>
    /\ pc' = node
    /\ UNCHANGED <<sessions, st, trace, req, turns>>
    /\ UNCHANGED pvars
    /\ UNCHANGED overlap

NextNodes ==
    \/ CallStateUpdater
    \/ \E node \in DirectEntries : EnterAt(node)
    \/ InputProcessor
    \/ ImageHandlerNode
    \/ InformationExtractor
    \/ StateUpdater
    \/ QuestionGenerator
    \/ EstimatorNode
    \/ ResponseGenerator

SpecNodes == InitNodes /\ [][NextNodes]_vars

\* ------------------------------------------------------------------------
\* Properties of single nodes (checked under SpecNodes)
\* ------------------------------------------------------------------------
\* C22, second half: a run in which the estimator is reached with a required
\* field missing, so that pricing returns the incomplete outcome, is sent to
\* question_generator and ends with the prompt of the first missing field.
C22_IncompleteReroutesToQuestion ==
    (pc = "END" /\ InTrace("estimator") /\ MissingNow # << >>)
    => /\ InTrace("question_generator")
       /\ LastEntry(st.conversation_history).content = Questions(MissingNow[1])

\* texts of the vocabulary that contain "image", "photo", "picture", "upload"
\* or "uploaded", in any letter case
SpecImageTexts ==
    {"see my photo", "PICTURE attached", UploadText("roof"),
     UploadText("different roof")}

\* C29: input_processor routes to image_handler exactly when the input
\* contains an image keyword in any letter case, and to
\* information_extractor otherwise; information_extractor is what runs after
\* image_handler.
C29_ImageKeywordRoutes ==
    /\ (trace # << >> /\ trace[Len(trace)] = "input_processor")
         => /\ pc = "image_handler" <=> st.user_input \in SpecImageTexts
            /\ pc \in {"image_handler", "information_extractor"}
    /\ (trace # << >> /\ trace[Len(trace)] = "image_handler")
         => pc = "information_extractor"
    /\ InTrace("image_handler") => InTrace("input_processor")

C29_Witness ==
    /\ trace = <<"input_processor", "image_handler">>
    /\ pc = "information_extractor"
    /\ st.user_input = "PICTURE attached"

\* C33: the step of information_extractor on an empty or whitespace-only
\* input returns the state as it got it: facts, history, estimate and
\* pending question are unchanged, nothing having been extracted.
C33_BlankInputSkipsExtraction ==
    [][ (pc = "information_extractor"
           /\ trace' = Append(trace, "information_extractor")
           /\ st.user_input \in BlankTexts)
          => /\ st'.extracted_info = st.extracted_info
             /\ st'.conversation_history = st.conversation_history
             /\ st'.final_estimate = st.final_estimate
             /\ st'.current_question = st.current_question
             /\ st' = st ]_vars

C33_Witness ==
    /\ trace = <<"input_processor", "information_extractor">>
    /\ st.user_input = "   "
    /\ UserSaid(st.conversation_history, RecalculateText)
    /\ "material_type" \notin DOMAIN st.extracted_info

\* C34: the step of response_generator ends the run.  With an estimate set it
\* appends the estimate summary and then the closing message; with no
\* estimate and no required field missing it prices once more and either
\* stores the estimate and appends the same two messages, or appends the one
\* apology and leaves the estimate unset; with a field missing it appends
\* nothing.
C34_RespondAppendsAndHalts ==
    [][ NodeStep("response_generator")
          => LET old == st.conversation_history
                 new == st'.conversation_history
                 TwoMessages ==
                     /\ Appended(old, new, 2)
                     /\ new[Len(old) + 1] =
                          [role |-> "assistant", content |-> EstimateSummary,
                           args |-> st'.final_estimate]
                     /\ new[Len(old) + 2] = Message("assistant", ClosingMessage)
             IN  /\ pc' = "END"
                 /\ IF st.final_estimate # << >>
                    THEN TwoMessages /\ st'.final_estimate = st.final_estimate
                    ELSE IF MissingNow # << >>
                    THEN new = old /\ st'.final_estimate = << >>
                    ELSE IF Pricing(st).outcome = "ok"
                    THEN TwoMessages /\ st'.final_estimate # << >>
                    ELSE /\ Appended(old, new, 1)
                         /\ new[Len(new)]
                              = Message("assistant", EstimateErrorMessage)
                         /\ st'.final_estimate = << >> ]_vars

C34_Witness ==
    /\ trace = <<"estimator", "response_generator">>
    /\ pc = "END"
    /\ st.final_estimate = << >>
    /\ LastEntry(st.conversation_history)
         = Message("assistant", EstimateErrorMessage)

\* C28: a call of state_updater that directly follows another call of it, no
\* input having been set in between, leaves the facts and the history as the
\* first call left them.
C28_SecondCallChangesNothing ==
    [][ (/\ trace # << >>
         /\ trace[Len(trace)] = "state_updater"
         /\ trace' = Append(trace, "state_updater"))
          => /\ st'.extracted_info = st.extracted_info
             /\ st'.conversation_history = st.conversation_history ]_vars

C28_Witness ==
    /\ trace = <<"state_updater", "state_updater">>
    /\ LastEntry(st.conversation_history) = Message("user", "Thanks!")
    /\ st.user_input = ""

\* ------------------------------------------------------------------------
\* Properties of the extraction step (checked under Spec)
\* ------------------------------------------------------------------------
\* a step of information_extractor that ran both tiers on a non-blank input
ExtractionStep ==
    /\ pc = "information_extractor"
    /\ pc' = "state_updater"
    /\ st.user_input \notin BlankTexts

\* what tier 2 returned in the step about to be taken
GeneralValues == format_extraction_response(st.conversation_history, st.user_input)

\* C23: when tier 1 matched a value for the targeted field, the facts hold
\* that value for the field after the step, whatever tier 2 returned for it;
\* tier-2 values are committed for the other fields only.
C23_TargetedValueWins ==
    [][ (ExtractionStep /\ TargetedValue(st) # None)
          => /\ st'.extracted_info[TargetedField(st)] = TargetedValue(st)
             /\ \A f \in DOMAIN GeneralValues \ {TargetedField(st)} :
                   Truthy(GeneralValues[f])
                     => st'.extracted_info[f] = GeneralValues[f] ]_vars

\* C24: every step of a turn that writes a fact writes a non-empty value:
\* a field that is new in the facts, or whose value changed, holds a value
\* that is not null, not the empty string and not zero; in particular no
\* non-empty fact is replaced by an empty one.
C24_OnlyNonEmptyCommitted ==
    [][ \A f \in DOMAIN st'.extracted_info :
          (f \notin DOMAIN st.extracted_info
             \/ st'.extracted_info[f] # st.extracted_info[f])
            => Truthy(st'.extracted_info[f]) ]_vars

\* ------------------------------------------------------------------------
\* main.py : a second /api/chat request of the session arriving while the
\* first one is suspended at "await estimation_graph.ainvoke(...)".  The
\* handlers take no lock; each request works on its own copy of the state it
\* read from sessions and stores its result when its graph run returns.
\* ------------------------------------------------------------------------
\* messages of the second request
OverlapTexts == {"1000", "Thanks!"}

NodeRaises(node, state) ==
    \/ node = "estimator" /\ Pricing(state).outcome = "raise"
    \/ /\ node = "response_generator"
       /\ state.final_estimate = << >>
       /\ Pricing(state).outcome = "raise"

\* the states a node can return
NodeResults(node, state) ==
    CASE node = "start"                 -> {start_node(state)}
      [] node = "input_processor"       -> {input_processor(state)}
      [] node = "image_handler"         -> {image_handler_node(state)}
      [] node = "information_extractor" -> {information_extractor(state)}
      [] node = "state_updater"         -> {state_updater(state)}
      [] node = "question_generator"    -> {question_generator(state)}
      [] node = "estimator"             ->
            {estimator_node(state, rnd) : rnd \in Draws(state)}
      [] node = "response_generator"    ->
            {response_generator(state, rnd) :
               rnd \in (IF state.final_estimate = << >>
                        THEN Draws(state) ELSE {EmptyDict})}

\* the states process_user_message can return for a run entered at node
RECURSIVE GraphResults(_, _)
GraphResults(node, state) ==
    IF node = "END" THEN {state}
    ELSE IF NodeRaises(node, state) THEN {ExceptBranch(state, "chat")}
    ELSE UNION {GraphResults(Edge(node, s), s) : s \in NodeResults(node, state)}

\* chat, up to the await: the second request reads the stored state while the
\* first one has not stored its result yet
OverlappingChat(message) ==
    /\ pc \in Nodes \cup {"END"}
    /\ SessionExists(sessions, SessionId)
    /\ overlap.phase = "none"
    /\ turns < MaxTurns
    /\ sessions' = [sessions EXCEPT ![SessionId].user_input = message]
    /\ overlap' = [phase       |-> "running",
                   message     |-> message,
                   input_state |-> ChatInputState(sessions'[SessionId], message)]
    /\ turns' = turns + 1
    /\ UNCHANGED <<st, pc, trace, req>>
    /\ UNCHANGED pvars

\* chat, after the await: "sessions[session_id] = result"
OverlappingReturn ==
    /\ overlap.phase = "running"
    /\ \E result \in GraphResults(EntryPoint, overlap.input_state) :
          sessions' = Put(sessions, SessionId, result)
    /\ overlap' = [overlap EXCEPT !.phase = "done"]
    /\ UNCHANGED <<st, pc, trace, req, turns>>
    /\ UNCHANGED pvars

NextOverlap ==
    \/ Next
    \/ \E message \in OverlapTexts : OverlappingChat(message)
    \/ OverlappingReturn

SpecOverlap == Init /\ [][NextOverlap]_vars

\* ------------------------------------------------------------------------
\* Properties of overlapping requests (checked under SpecOverlap)
\* ------------------------------------------------------------------------
\* C25: when two chat requests of the session overlapped and both have
\* stored their result, the stored state holds the user message of both and
\* every fact the first one had in its result (no lost update).
C25_NoLostUpdate ==
    (/\ pc = "idle"
     /\ overlap.phase = "done"
     /\ req.kind = "chat"
     /\ req.message \notin BlankTexts)
    => /\ UserSaid(sessions[SessionId].conversation_history, req.message)
       /\ UserSaid(sessions[SessionId].conversation_history, overlap.message)
       /\ \A f \in DOMAIN st.extracted_info :
             f \in DOMAIN sessions[SessionId].extracted_info

\* ------------------------------------------------------------------------
\* Properties of the upload turn (checked under Spec)
\* ------------------------------------------------------------------------
UserCount(history) ==
    Cardinality({i \in DOMAIN history : history[i].role = "user"})

\* the upload turn in progress has reached the end of its graph run
UploadTurnDone == req.kind = "upload" /\ pc = "END"

\* the upload of the turn in progress came with image data
UploadHasData ==
    /\ st.image_references # << >>
    /\ st.image_references[Len(st.image_references)] \in DOMAIN st.image_analysis

\* C26 as stated: an upload turn runs as a message turn with empty text; the
\* text extractor does not run on a text, and the turn appends no user
\* message to the history.
C26_UploadAddsNoUserText ==
    UploadTurnDone
    => UserCount(st.conversation_history)
         = UserCount(sessions[SessionId].conversation_history)

\* C26 as amended: an upload turn runs as a message turn with the text
\* "I've uploaded an image: <description>"; the image step merges the facts
\* derived from supplied image data, the text extractor runs on that text,
\* and the text is appended to the history as one user message.
C26_UploadRunsAsMessageTurn ==
    UploadTurnDone
    => /\ InTrace("image_handler")
       /\ InTrace("information_extractor")
       /\ UserCount(st.conversation_history)
            = UserCount(sessions[SessionId].conversation_history) + 1
       /\ LastUserContent(st.conversation_history)
            = UploadText(req.file_description)
       /\ UploadHasData
            => \A i \in DOMAIN ImageFactOrder :
                  ImageFactOrder[i] \in DOMAIN st.extracted_info

C26_Witness ==
    /\ UploadTurnDone
    /\ UploadHasData
    /\ InTrace("information_extractor")
    /\ LastUserContent(st.conversation_history) = UploadText("roof")

\* ------------------------------------------------------------------------
\* Properties of session creation (checked under Spec)
\* ------------------------------------------------------------------------
\* C27: the request that creates the session runs start_node only, and the
\* state it stores has the required fields of the roofing profile, no facts,
\* no estimate, a pending question, and a history of exactly the welcome
\* message followed by the prompt of the first required field.
C27_StartSessionRunsStartOnly ==
    (req.kind = "create" /\ pc = "idle" /\ SessionId \in DOMAIN sessions)
    => /\ trace = <<"start">>
       /\ sessions[SessionId].required_info = ConfigRequiredInfo("roofing")
       /\ sessions[SessionId].extracted_info = EmptyDict
       /\ sessions[SessionId].final_estimate = << >>
       /\ sessions[SessionId].current_question # ""
       /\ sessions[SessionId].conversation_history
            = <<Message("assistant", WelcomeMessage),
                Message("assistant",
                        Questions(ConfigRequiredInfo("roofing")[1]))>>

\* ------------------------------------------------------------------------
\* main.py : requests naming a session id that is not in the store.  chat and
\* upload_file raise HTTPException(status_code=404) before they read or
\* write anything.
\* ------------------------------------------------------------------------
SessionIds == {SessionId, UnknownSessionId}

\* messages and descriptions of the requests that are rejected
NotFoundTexts == {"Thanks!", "1000"}

NotFoundDescriptions == {"roof"}

\* POST /api/chat, "if session_id not in sessions: raise HTTPException(...)"
chat_not_found(session_id, message) ==
    /\ pc = "idle"
    /\ ~SessionExists(sessions, session_id)
    /\ req' = [kind |-> "chat", session_id |-> session_id, message |-> message,
               file_description |-> ""]
    /\ pc' = "not_found"
    /\ UNCHANGED <<sessions, st, trace, turns>>
    /\ UNCHANGED pvars
    /\ UNCHANGED overlap

\* POST /api/upload, "if session_id not in sessions: raise HTTPException(...)"
upload_not_found(session_id, file_description) ==
    /\ pc = "idle"
    /\ ~SessionExists(sessions, session_id)
    /\ req' = [kind |-> "upload", session_id |-> session_id,
               message |-> UploadText(file_description),
               file_description |-> file_description]
    /\ pc' = "not_found"
    /\ UNCHANGED <<sessions, st, trace, turns>>
    /\ UNCHANGED pvars
    /\ UNCHANGED overlap

\* the 404 response is sent
RespondNotFound ==
    /\ pc = "not_found"
    /\ pc' = "idle"
    /\ UNCHANGED <<sessions, st, trace, req, turns>>
    /\ UNCHANGED pvars
    /\ UNCHANGED overlap

NextStore ==
    \/ Next
    \/ \E session_id \in SessionIds, message \in NotFoundTexts :
          chat_not_found(session_id, message)
    \/ \E session_id \in SessionIds, file_description \in NotFoundDescriptions :
          upload_not_found(session_id, file_description)
    \/ RespondNotFound

SpecStore == Init /\ [][NextStore]_vars

\* ------------------------------------------------------------------------
\* Properties of rejected requests (checked under SpecStore)
\* ------------------------------------------------------------------------
\* the step accepts or rejects a chat or upload request
RequestArrives ==
    pc = "idle" /\ pc' # "idle" /\ req'.kind \in {"chat", "upload"}

\* C30: a chat or upload request naming a session id that is not in the
\* store is rejected with the not-found error, only such a request is, and
\* neither the rejection nor the sending of its response changes the store.
C30_UnknownSessionRejected ==
    [][ /\ (RequestArrives /\ req'.session_id \notin DOMAIN sessions)
            => (pc' = "not_found" /\ sessions' = sessions)
        /\ pc' = "not_found" => req'.session_id \notin DOMAIN sessions'
        /\ pc = "not_found" => (pc' = "idle" /\ sessions' = sessions) ]_vars

C30_Witness ==
    /\ pc = "not_found"
    /\ req.session_id = UnknownSessionId
    /\ SessionId \in DOMAIN sessions
    /\ sessions[SessionId].conversation_history # << >>

\* ------------------------------------------------------------------------
\* Properties of the steps of a turn (checked under Spec)
\* ------------------------------------------------------------------------
\* C31: the step of question_generator appends exactly one message, an
\* assistant one, sets current_question to a non-empty text that is the
\* content of that message, and ends the run.
C31_QuestionAppendedOnceAndHalts ==
    [][ NodeStep("question_generator")
          => /\ Appended(st.conversation_history, st'.conversation_history, 1)
             /\ LastEntry(st'.conversation_history).role = "assistant"
             /\ st'.current_question # ""
             /\ st'.current_question
                  = LastEntry(st'.conversation_history).content
             /\ pc' = "END" ]_vars

C31_Witness ==
    /\ pc = "END"
    /\ trace # << >>
    /\ trace[Len(trace)] = "question_generator"
    /\ req.kind = "chat"
    /\ st.current_question = QuestionSquareFootage

\* ------------------------------------------------------------------------
\* Properties of the steps of a turn, failing turns included (checked under
\* SpecFault)
\* ------------------------------------------------------------------------
\* C32: state_updater appends a non-blank user_input as exactly one user
\* message, appends nothing for a blank one, and clears user_input; and the
\* state a turn ends with, failed turns included, has an empty user_input.
C32_InputClearedAtEndOfTurn ==
    [][ /\ NodeStep("state_updater")
            => /\ st'.user_input = ""
               /\ IF st.user_input \in BlankTexts
                  THEN st'.conversation_history = st.conversation_history
                  ELSE /\ Appended(st.conversation_history,
                                   st'.conversation_history, 1)
                       /\ LastEntry(st'.conversation_history)
                            = Message("user", st.user_input)
        /\ pc' = "END" => st'.user_input = "" ]_vars

\* ------------------------------------------------------------------------
\* Properties of the image-handling step (checked under Spec)
\* ------------------------------------------------------------------------
\* C35: the step of image_handler leaves image_references non-empty and
\* appends exactly one assistant message, the confirmation or the analysis
\* summary; it adds one placeholder reference when there was none and no
\* reference when there was one.
C35_ImageStepConfirmsOnce ==
    [][ NodeStep("image_handler")
          => /\ Appended(st.conversation_history, st'.conversation_history, 1)
             /\ LastEntry(st'.conversation_history).role = "assistant"
             /\ LastEntry(st'.conversation_history).content
                  \in {ImageReceivedMessage, AnalysisSummary}
             /\ st'.image_references # << >>
             /\ IF st.image_references = << >>
                THEN Len(st'.image_references) = 1
                ELSE st'.image_references = st.image_references ]_vars

C35_Witness ==
    /\ trace # << >>
    /\ trace[Len(trace)] = "image_handler"
    /\ req.kind = "chat"
    /\ sessions[SessionId].image_references # << >>
    /\ st.image_references = sessions[SessionId].image_references
    /\ LastEntry(st.conversation_history).content = ImageReceivedMessage

\* C36: the image-handling step only fills gaps of the facts: a field with a
\* value other than None keeps it, and a field that was absent or None is
\* either left as it was or receives the image-derived value.
C36_ImageFactsOnlyFillGaps ==
    [][ NodeStep("image_handler")
          => /\ DOMAIN st.extracted_info \subseteq DOMAIN st'.extracted_info
             /\ \A key \in DOMAIN st'.extracted_info :
                   IF key \in DOMAIN st.extracted_info
                      /\ st.extracted_info[key] # None
                   THEN st'.extracted_info[key] = st.extracted_info[key]
                   ELSE \/ /\ key \in DOMAIN ImageFacts
                           /\ st'.extracted_info[key] = ImageFacts[key]
                        \/ /\ key \in DOMAIN st.extracted_info
                           /\ st'.extracted_info[key] = None ]_vars

\* an analysed image after the square footage was given in a message: the
\* message's value stays and the material comes from the image
C36_Witness ==
    /\ trace # << >>
    /\ trace[Len(trace)] = "image_handler"
    /\ LastEntry(st.conversation_history).content = AnalysisSummary
    /\ "square_footage" \in DOMAIN sessions[SessionId].extracted_info
    /\ "square_footage" \in DOMAIN st.extracted_info
    /\ st.extracted_info["square_footage"] # ImageFacts["square_footage"]
    /\ st.extracted_info["square_footage"] # None
    /\ "material_type" \in DOMAIN st.extracted_info
    /\ st.extracted_info["material_type"] = ImageFacts["material_type"]

AgreesWithFacts(estimate, extracted_info) ==
    /\ {"square_footage", "location", "material_type", "timeline"}
          \subseteq DOMAIN extracted_info
    /\ extracted_info["square_footage"].t = "num"
    /\ estimate.square_footage = extracted_info["square_footage"].n
    /\ \A field \in {"location", "material_type", "timeline"} :
          /\ extracted_info[field].t = "str"
          /\ estimate[field] = Lower(extracted_info[field].s)

\* C38: in every session state, a stored estimate carries the square_footage,
\* location, material_type and timeline that are in the facts of that state.
C38_EstimateAgreesWithFacts ==
    \A session_id \in DOMAIN sessions :
        sessions[session_id].final_estimate # << >>
        => AgreesWithFacts(sessions[session_id].final_estimate[1],
                           sessions[session_id].extracted_info)

\* field is in the missing_info a response computed from state would report
ReportedMissing(state, field) ==
    \E i \in DOMAIN get_missing_info(state.required_info, state.extracted_info) :
        get_missing_info(state.required_info, state.extracted_info)[i] = field

\* C39: a required field that is not missing in a stored session state is not
\* missing in the state stored next for that session, whatever request was
\* served in between; so the missing fields never grow over a session.
C39_MissingNeverGrows ==
    [][ \A session_id \in DOMAIN sessions \cap DOMAIN sessions' :
          \A i \in DOMAIN sessions[session_id].required_info :
             ~ReportedMissing(sessions[session_id],
                              sessions[session_id].required_info[i])
             => ~ReportedMissing(sessions'[session_id],
                                 sessions[session_id].required_info[i]) ]_vars

\* ------------------------------------------------------------------------
\* Properties of the state a turn is given and the state it returns
\* (checked under SpecFault, so for successful and failed turns)
\* ------------------------------------------------------------------------
IsPrefix(old, new) ==
    /\ Len(old) <= Len(new)
    /\ SubSeq(new, 1, Len(old)) = old

=============================================================================
